---- MODULE Spec2Model ----
(***************************************************************************)
(* A model of weco-deploy's release store (src/deploy/release_store.py,    *)
(* src/deploy/releases_store.py) and of the Project operations that write  *)
(* to it (src/deploy/project.py: prepare, update, deploy).                 *)
(*                                                                         *)
(* A release is the dict built by Project._create_release; a deployment is *)
(* the dict built by Project._create_deployment.  Timestamps are the       *)
(* strings of datetime.isoformat(), which sort as the instants they name;  *)
(* they are modelled by naturals, 0 standing for an absent attribute.      *)
(***************************************************************************)
EXTENDS Integers, Sequences, FiniteSets, TLC

\* ------------------------------------------------------------------ bounds
MaxRel == 2      \* release ids of the store-level specifications
MaxDate == 3     \* timestamps of the store-level specifications
MaxLimit == 3    \* the limit argument of the queries
MaxPage == 2     \* releases per page of a DynamoDB query
MaxTime == 3     \* readings of the clock in the multi-process specifications
MaxNew == 2      \* releases created in the multi-process specifications

RelIds == 1..MaxRel
Dates == 1..MaxDate
Limits == 0..MaxLimit
PageSizes == 1..MaxPage

Procs == {"p1", "p2"}
Envs == {"prod", "stage"}
Kinds == {"memory", "dynamo", "legacy"}

Repos == {"a", "b"}

NoDate == 0
NoEnv == "none"
NoImage == "None"
NoImages == [r \in Repos |-> NoImage]

\* Image sets that get_images resolves (image id -> ref tag).
ImagesV1 == [r \in Repos |-> "ref.1"]
ImagesV2 == [r \in Repos |-> "ref.2"]
ImagesPartial == [r \in Repos |-> IF r = "a" THEN "ref.3" ELSE NoImage]

Latest == 0      \* the release_id "latest"

VARIABLES
    kind,      \* which store class backs the project
    table,     \* release_id -> release: MemoryReleaseStore.cache / the DynamoDB table
    pc,        \* per process: the add_deployment call it is in the middle of
    now,       \* the clock read by datetime.utcnow()
    nextId,    \* the next uuid4 handed out by _create_release
    lastOp,    \* the operation that made the last step, and its outcome
    aws,       \* what lives in AWS besides the rows: the table itself, the ECR tags
    calls      \* the last deploy() call: its arguments, its AWS calls, its outcome

vars == <<kind, table, pc, now, nextId, lastOp, aws, calls>>

\* ------------------------------------------------------------------ helpers
Min(a, b) == IF a < b THEN a ELSE b

Range(s) == {s[i] : i \in 1..Len(s)}

IsPrefix(s, t) == Len(s) <= Len(t) /\ \A i \in 1..Len(s) : s[i] = t[i]

Take(s, n) == SubSeq(s, 1, Min(n, Len(s)))

RECURSIVE SetToSeq(_)
SetToSeq(S) ==
    IF S = {} THEN <<>>
    ELSE LET x == CHOOSE y \in S : \A z \in S : y <= z
         IN <<x>> \o SetToSeq(S \ {x})

\* Python's sorted(xs, key=..., reverse=True): descending by key, and stable
\* (elements with equal keys keep their original order).  The elements are
\* pairs [k |-> key, v |-> value].
InsertDesc(x, s) ==
    LET after == {i \in 1..Len(s) : s[i].k >= x.k}
        n == Cardinality(after)
    IN SubSeq(s, 1, n) \o <<x>> \o SubSeq(s, n + 1, Len(s))

RECURSIVE sorted_reverse(_)
sorted_reverse(s) ==
    IF Len(s) = 0 THEN <<>>
    ELSE InsertDesc(s[Len(s)], sorted_reverse(SubSeq(s, 1, Len(s) - 1)))

Values(s) == [i \in 1..Len(s) |-> s[i].v]

ByDateCreated(s) == [i \in 1..Len(s) |-> [k |-> s[i].date_created, v |-> s[i]]]

ByLastDateDeployed(s) == [i \in 1..Len(s) |-> [k |-> s[i].last_date_deployed, v |-> s[i]]]

RECURSIVE Flatten(_)
Flatten(ss) == IF Len(ss) = 0 THEN <<>> ELSE Head(ss) \o Flatten(Tail(ss))

SelectEnv(ds, environment) ==
    SelectSeq(ds, LAMBDA d : d.environment = environment)

\* ------------------------------------------------------------------ records
NoDeployment ==
    [environment |-> NoEnv, date_created |-> NoDate, requested_by |-> "nobody",
     description |-> "none", details |-> "none"]

\* Project._create_deployment
_create_deployment(environment_id, details, description, date, user) ==
    [environment |-> environment_id,
     date_created |-> date,
     requested_by |-> user,
     description |-> description,
     details |-> details]

\* A _create_release that edits in place: every release is written under the
\* release_id 1 instead of a fresh one.
_create_release_in_place(release_id, description, images, date, user) ==
    [release_id |-> 1,
     project_id |-> "project",
     project_name |-> "unnamed",
     date_created |-> date,
     requested_by |-> user,
     description |-> description,
     images |-> images,
     deployments |-> <<>>,
     last_date_deployed |-> NoDate]

\* Project._create_release: no last_date_deployed attribute (NoDate).
_create_release(release_id, description, images, date, user) ==
    [release_id |-> release_id,
     project_id |-> "project",
     project_name |-> "unnamed",
     date_created |-> date,
     requested_by |-> user,
     description |-> description,
     images |-> images,
     deployments |-> <<>>,
     last_date_deployed |-> NoDate]

NoRelease == _create_release(0, "none", NoImages, NoDate, "nobody")

Idle == [st |-> "idle", rid |-> 0, d |-> NoDeployment]

NoOp ==
    [op |-> "init", p |-> "none", rid |-> 0, d |-> NoDeployment, r |-> NoRelease,
     res |-> "ok"]

Op(op, p, rid, d, r, res) ==
    [op |-> op, p |-> p, rid |-> rid, d |-> d, r |-> r, res |-> res]

\* ------------------------------------------------------------------ the stores
Stored(t) ==
    LET ids == SetToSeq(DOMAIN t)
    IN [i \in 1..Len(ids) |-> t[ids[i]]]

\* A put_release that only inserts: a row that exists is left as it is.
put_release_if_absent(t, release) ==
    [x \in DOMAIN t \cup {release.release_id} |->
        IF x \in DOMAIN t THEN t[x] ELSE release]

\* MemoryReleaseStore.put_release / DynamoReleaseStore.put_release (put_item):
\* insert, or overwrite the row of the same release_id.
put_release(t, release) ==
    [x \in DOMAIN t \cup {release.release_id} |->
        IF x = release.release_id THEN release ELSE t[x]]

Ok(v) == [ok |-> TRUE, val |-> v, err |-> "none", msg |-> "none"]

\* A get_release that answers an unknown release_id with an empty release.
get_release_or_default(k, t, release_id) ==
    IF release_id \in DOMAIN t THEN Ok(t[release_id]) ELSE Ok(NoRelease)

\* get_release: the stored release, or ReleaseNotFoundError(release_id);
\* the legacy DynamoDbReleaseStore raises RuntimeError instead.
get_release(k, t, release_id) ==
    IF release_id \in DOMAIN t THEN Ok(t[release_id])
    ELSE [ok |-> FALSE, val |-> release_id,
          err |-> IF k = "legacy" THEN "RuntimeError" ELSE "ReleaseNotFoundError",
          msg |-> "release_id"]

\* MemoryReleaseStore.get_recent_releases: sorted(...)[:limit]
Memory_get_recent_releases(t, limit) ==
    Take(Values(sorted_reverse(ByDateCreated(Stored(t)))), limit)

\* DynamoReleaseStore.get_recent_releases: one Query of project_gsi (range key
\* date_created), ScanIndexForward=False, Limit=limit, and the Items of that
\* one response.  Limit must be at least 1 (ParamValidationError).  A
\* response holds up to pageSize releases (the 1 MB of a Query response) and
\* carries a LastEvaluatedKey when rows remain; the code does not read it.
Dynamo_get_recent_releases(t, limit, pageSize) ==
    LET project_gsi == Values(sorted_reverse(ByDateCreated(Stored(t))))
    IN IF limit < 1 THEN [err |-> "ParamValidationError", val |-> <<>>]
       ELSE [err |-> "none", val |-> Take(project_gsi, Min(limit, pageSize))]

\* release_store.get_recent_releases(limit=limit): [err, val].  The legacy
\* store (releases_store.py) defines no such method.
get_recent_releases(k, t, limit, pageSize) ==
    IF k = "memory" THEN [err |-> "none", val |-> Memory_get_recent_releases(t, limit)]
    ELSE IF k = "legacy" THEN [err |-> "AttributeError", val |-> <<>>]
    ELSE Dynamo_get_recent_releases(t, limit, pageSize)

\* A get_most_recent_release that returns None when nothing is stored, as
\* get_latest_release of the legacy store does.
get_most_recent_release_or_none(k, t) ==
    LET rs == get_recent_releases(k, t, 1, 1).val
    IN IF Len(rs) = 0 THEN [ok |-> TRUE, val |-> 0, err |-> "none", msg |-> "none"]
       ELSE [ok |-> TRUE, val |-> rs[1], err |-> "none", msg |-> "none"]

\* ReleaseStore.get_most_recent_release: get_recent_releases(limit=1), whose
\* response holds the one release whatever the size of a page.  The legacy
\* store is no ReleaseStore and has no such method.
get_most_recent_release(k, t) ==
    LET rs == get_recent_releases(k, t, 1, 1).val
    IN IF k = "legacy"
       THEN [ok |-> FALSE, val |-> 0, err |-> "AttributeError", msg |-> "none"]
       ELSE IF Len(rs) = 0
       THEN [ok |-> FALSE, val |-> 0, err |-> "ReleaseNotFoundError",
             msg |-> "There are no releases yet"]
       ELSE Ok(rs[1])

\* MemoryReleaseStore.get_recent_deployments; environment NoEnv is None.
Memory_get_recent_deployments(t, environment, limit) ==
    LET all == Flatten([i \in 1..Len(Stored(t)) |-> Stored(t)[i].deployments])
        deployments == IF environment # NoEnv THEN SelectEnv(all, environment) ELSE all
    IN Take(Values(sorted_reverse(ByDateCreated(deployments))), limit)

\* The rows of deployment_gsi (range key last_date_deployed), newest first: a
\* row without the attribute is not in the index.
deployment_gsi(t) ==
    Values(sorted_reverse(ByLastDateDeployed(
        SelectSeq(Stored(t), LAMBDA r : r.last_date_deployed # NoDate))))

\* deployment["release_id"] = release["release_id"], on every deployment of a row
with_release_id(ds, release_id) ==
    [j \in 1..Len(ds) |-> [release_id |-> release_id] @@ ds[j]]

\* The loop of DynamoReleaseStore.get_recent_deployments: `start` is the
\* position after ExclusiveStartKey, a page holds up to pageSize releases and
\* carries a LastEvaluatedKey when rows remain after it.
RECURSIVE Dynamo_pages(_, _, _, _, _, _, _)
Dynamo_pages(index, environment, limit, pageSize, start, known_deployments, items_seen) ==
    IF ~(Len(known_deployments) < limit \/ items_seen < limit)
    THEN known_deployments
    ELSE LET last == Min(start + pageSize - 1, Len(index))
             Items == SubSeq(index, start, last)
             found == Flatten([i \in 1..Len(Items) |->
                          with_release_id(Items[i].deployments, Items[i].release_id)])
             kept == IF environment # NoEnv THEN SelectEnv(found, environment) ELSE found
             known == known_deployments \o kept
         IN IF last >= Len(index)
            THEN known
            ELSE Dynamo_pages(index, environment, limit, pageSize, last + 1,
                              known, items_seen + Len(Items))

\* DynamoReleaseStore.get_recent_deployments
Dynamo_get_recent_deployments(t, environment, limit, pageSize) ==
    LET known_deployments ==
            Dynamo_pages(deployment_gsi(t), environment, limit, pageSize, 1, <<>>, 0)
    IN Take(Values(sorted_reverse(ByDateCreated(known_deployments))), limit)

get_recent_deployments(k, t, environment, limit, pageSize) ==
    IF k = "memory" THEN Memory_get_recent_deployments(t, environment, limit)
    ELSE Dynamo_get_recent_deployments(t, environment, limit, pageSize)

\* A first request that writes the list back instead of appending on the
\* server: SET #deployments = :d, which drops what is stored.
update_item_overwrite(t, release_id, deployment) ==
    [t EXCEPT ![release_id].deployments = <<deployment>>]

\* A first request that writes the date instead of appending: the two
\* requests in the opposite order.
update_item_date_before_append(t, release_id, deployment) ==
    [t EXCEPT ![release_id].last_date_deployed = deployment.date_created]

\* DynamoReleaseStore.add_deployment, first update_item:
\* SET #deployments = list_append(#deployments, :d)
update_item_list_append(t, release_id, deployment) ==
    [t EXCEPT ![release_id].deployments = Append(@, deployment)]

\* A second request that keeps the newer of the stored and the new date.
update_item_newest_date_deployed(t, release_id, deployment) ==
    [t EXCEPT ![release_id].last_date_deployed =
        IF @ > deployment.date_created THEN @ ELSE deployment.date_created]

\* DynamoReleaseStore.add_deployment, second update_item:
\* SET last_date_deployed = :d
update_item_last_date_deployed(t, release_id, deployment) ==
    [t EXCEPT ![release_id].last_date_deployed = deployment.date_created]

\* An add_deployment that puts the new deployment first in the list.
Memory_add_deployment_first(t, release_id, deployment) ==
    [t EXCEPT ![release_id].deployments = <<deployment>> \o @,
              ![release_id].last_date_deployed = deployment.date_created]

\* MemoryReleaseStore.add_deployment
Memory_add_deployment(t, release_id, deployment) ==
    [t EXCEPT ![release_id].deployments = Append(@, deployment),
              ![release_id].last_date_deployed = deployment.date_created]

\* DynamoReleaseStore.add_deployment run to completion by a single caller.
Dynamo_add_deployment(t, release_id, deployment) ==
    update_item_last_date_deployed(
        update_item_list_append(t, release_id, deployment), release_id, deployment)

\* An add_deployment that sends its request twice.
add_deployment_twice(k, t, release_id, deployment) ==
    IF k = "memory"
    THEN Memory_add_deployment(Memory_add_deployment(t, release_id, deployment),
                               release_id, deployment)
    ELSE Dynamo_add_deployment(Dynamo_add_deployment(t, release_id, deployment),
                               release_id, deployment)

add_deployment(k, t, release_id, deployment) ==
    IF k = "memory" THEN Memory_add_deployment(t, release_id, deployment)
    ELSE Dynamo_add_deployment(t, release_id, deployment)

\* ------------------------------------------------------------------ AWS
\* The tags an image of an ECR repository can carry: a label, an environment
\* tag, and the ref tags that publish_image gives (f"ref.{local_image_tag}").
ImageTags == {"latest", "env.prod", "ref.1", "ref.2"}

\* t.startswith("ref.")
startswith_ref(t) == t \in {"ref.1", "ref.2"}

\* An ECR repository: image tag -> the image that carries it ("none": no
\* image does).  A repository without a tagged image:
Untagged == [t \in ImageTags |-> "none"]

\* The env.<environment> tag of every repository, before any deploy: on no image.
NoTags == [k \in Repos |-> [e \in Envs |-> NoImage]]

\* initialise() has run: the DynamoDB table exists (the memory store needs
\* none); nothing is deployed and no ECS service runs.
Provisioned ==
    [exists |-> TRUE, tags |-> NoTags, fleet |-> {},
     registry |-> [r \in Repos |-> Untagged]]

\* No deploy() call has run.
NoCalls ==
    [rid |-> 0, environment |-> NoEnv, order |-> <<>>, release_id |-> 0,
     res |-> "none", got |-> "none", expected |-> {}, log |-> <<>>,
     returned |-> NoDeployment]

\* ------------------------------------------------------------------ store API
\* The store driven through its public methods by a single caller, as the
\* tests of tests/test_release_store.py drive it.
DeploymentDates(t) ==
    UNION {{d.date_created : d \in Range(t[x].deployments)} : x \in DOMAIN t}

ReleaseDates(t, except) ==
    {t[x].date_created : x \in DOMAIN t \ {except}}

StoreInit ==
    /\ kind \in {"memory", "dynamo"}
    /\ table = << >>
    /\ pc = [p \in Procs |-> Idle]
    /\ now = 1
    /\ nextId = 1
    /\ lastOp = NoOp
    /\ aws = Provisioned
    /\ calls = NoCalls

StorePut(rid, date, images) ==
    /\ date \notin ReleaseDates(table, rid)
    /\ LET release == _create_release(rid, "put", images, date, "user")
       IN /\ table' = put_release(table, release)
          /\ lastOp' = Op("put_release", "p1", rid, NoDeployment, release, "ok")
    /\ UNCHANGED <<aws, calls, kind, pc, now, nextId>>

StoreAdd(rid, env, date) ==
    /\ date \notin DeploymentDates(table)
    /\ LET d == _create_deployment(env, "details", "add", date, "user")
       IN IF rid \in DOMAIN table
          THEN /\ table' = add_deployment(kind, table, rid, d)
               /\ lastOp' = Op("add_deployment", "p1", rid, d, NoRelease, "ok")
          ELSE /\ table' = table
               /\ lastOp' = Op("add_deployment", "p1", rid, NoDeployment, NoRelease,
                               IF kind = "memory" THEN "KeyError" ELSE "ClientError")
    /\ UNCHANGED <<aws, calls, kind, pc, now, nextId>>

\* Puts and add_deployments in any order, with deployments to one environment.
StoreNext ==
    \/ \E rid \in RelIds, date \in RelIds : StorePut(rid, date, ImagesV1)
    \/ \E rid \in RelIds, date \in Dates : StoreAdd(rid, "prod", date)

SpecStore == StoreInit /\ [][StoreNext]_vars

\* The same with deployments to every environment, for the queries that
\* filter on the environment.
QueryNext ==
    \/ \E rid \in RelIds, date \in RelIds : StorePut(rid, date, ImagesV1)
    \/ \E rid \in RelIds, env \in Envs, date \in Dates : StoreAdd(rid, env, date)

SpecQuery == StoreInit /\ [][QueryNext]_vars

\* ------------------------------------------------------------------ store lifecycle
\* An initialise() that creates the table without probing for it: an existing
\* table is replaced by an empty one.
initialise_always_create(k, a, t, probe) ==
    IF k = "memory" THEN [res |-> "ok", aws |-> a, table |-> t]
    ELSE [res |-> "ok", aws |-> [a EXCEPT !.exists = TRUE], table |-> << >>]

\* MemoryReleaseStore.initialise (pass) and DynamoReleaseStore.initialise:
\* table.load() probes the table; ResourceNotFoundException leads to
\* _create_table(), any other exception of the probe leaves the method.
\* probe is "answer" when DynamoDB answers the probe (with the table or with
\* ResourceNotFoundException), else the exception it raised.
initialise(k, a, t, probe) ==
    IF k = "memory" THEN [res |-> "ok", aws |-> a, table |-> t]
    ELSE IF probe # "answer" THEN [res |-> probe, aws |-> a, table |-> t]
    ELSE IF a.exists THEN [res |-> "ok", aws |-> a, table |-> t]
    ELSE [res |-> "ok", aws |-> [a EXCEPT !.exists = TRUE], table |-> << >>]

\* The store object exists; the DynamoDB table may or may not.
LifeInit ==
    /\ kind \in {"memory", "dynamo"}
    /\ table = << >>
    /\ pc = [p \in Procs |-> Idle]
    /\ now = 1
    /\ nextId = 1
    /\ lastOp = NoOp
    /\ aws \in {[Provisioned EXCEPT !.exists = x] : x \in {kind = "memory", TRUE}}
    /\ calls = NoCalls

Initialise(probe) ==
    LET out == initialise(kind, aws, table, probe)
    IN /\ aws' = out.aws
       /\ table' = out.table
       /\ lastOp' = Op("initialise", "p1", 0, NoDeployment, NoRelease, out.res)
       /\ UNCHANGED <<calls, kind, pc, now, nextId>>

\* release_store.get_release(release_id)
StoreGet(release_id) ==
    LET got == get_release(kind, table, release_id)
    IN /\ lastOp' = Op("get_release", "p1", release_id, NoDeployment,
                       IF got.ok THEN got.val ELSE NoRelease,
                       IF got.ok THEN "ok" ELSE got.err)
       /\ UNCHANGED <<aws, calls, kind, table, pc, now, nextId>>

\* initialise, put_release, add_deployment and get_release in any order; the
\* requests against the table need it to exist.
LifePut(rid, date) == aws.exists /\ StorePut(rid, date, ImagesV1)

LifeAdd(rid, date) == aws.exists /\ StoreAdd(rid, "prod", date)

LifeGet(rid) == aws.exists /\ StoreGet(rid)

LifeNext ==
    \/ \E probe \in {"answer", "ParamValidationError"} : Initialise(probe)
    \/ \E rid \in RelIds, date \in RelIds : LifePut(rid, date)
    \/ \E rid \in RelIds, date \in RelIds : LifeAdd(rid, date)
    \/ \E rid \in RelIds : LifeGet(rid)

SpecLife == LifeInit /\ [][LifeNext]_vars

\* ------------------------------------------------------------------ concurrent callers
\* Two operator processes share one DynamoDB table.  Each builds a release
\* (id drawn, clock read) and stores it with a PutItem, builds a deployment
\* as Project.deploy does (date_created read from the clock) and then calls
\* DynamoReleaseStore.add_deployment, whose two update_item requests are the
\* atomic steps: the steps of the two processes interleave in any order.
ConcInit ==
    /\ kind = "dynamo"
    /\ table = << >>
    /\ pc = [p \in Procs |-> Idle]
    /\ now = 1
    /\ nextId = 1
    /\ lastOp = NoOp
    /\ aws = Provisioned
    /\ calls = NoCalls

\* release = self._create_release(...): the id is drawn and the clock is read
\* here; requested_by is then fetched from STS, so the release is stored
\* some time later.
ConcCreateRelease(p) ==
    /\ pc[p].st = "idle"
    /\ nextId <= MaxNew /\ now <= MaxTime
    /\ LET release == _create_release(nextId, "put", ImagesV1, now, p)
       IN /\ pc' = [pc EXCEPT ![p] = [st |-> "release", rid |-> nextId,
                                       d |-> NoDeployment, release |-> release]]
          /\ lastOp' = Op("create_release", p, nextId, NoDeployment, release, "ok")
    /\ now' = now + 1
    /\ nextId' = nextId + 1
    /\ UNCHANGED <<aws, calls, kind, table>>

\* release_store.put_release(release): the PutItem of the release built
\* before.
ConcPut(p) ==
    /\ pc[p].st = "release"
    /\ table' = put_release(table, pc[p].release)
    /\ pc' = [pc EXCEPT ![p] = Idle]
    /\ lastOp' = Op("put_release", p, pc[p].rid, NoDeployment, pc[p].release, "ok")
    /\ UNCHANGED <<aws, calls, kind, now, nextId>>

\* deployment = self._create_deployment(...): the clock is read here.
ConcCreate(p, rid, env) ==
    /\ pc[p].st = "idle"
    /\ rid \in DOMAIN table
    /\ now <= MaxTime
    /\ pc' = [pc EXCEPT ![p] = [st |-> "created", rid |-> rid,
                                d |-> _create_deployment(env, "details", "deploy", now, p)]]
    /\ now' = now + 1
    /\ lastOp' = Op("create_deployment", p, rid, pc'[p].d, NoRelease, "ok")
    /\ UNCHANGED <<aws, calls, kind, table, nextId>>

\* DynamoDB add_deployment, first request: list_append.
AddDeployment_list_append(p) ==
    /\ kind # "memory"
    /\ pc[p].st = "created"
    /\ table' = update_item_list_append(table, pc[p].rid, pc[p].d)
    /\ pc' = [pc EXCEPT ![p].st = "appended"]
    /\ lastOp' = Op("update_item_1", p, pc[p].rid, pc[p].d, NoRelease, "ok")
    /\ UNCHANGED <<aws, calls, kind, now, nextId>>

\* add_deployment, second request: SET last_date_deployed; the call returns.
AddDeployment_last_date_deployed(p) ==
    /\ pc[p].st = "appended"
    /\ table' = update_item_last_date_deployed(table, pc[p].rid, pc[p].d)
    /\ pc' = [pc EXCEPT ![p] = Idle]
    /\ lastOp' = Op("add_deployment", p, pc[p].rid, pc[p].d, NoRelease, "ok")
    /\ UNCHANGED <<aws, calls, kind, now, nextId>>

\* The process dies between the two requests of add_deployment: the second
\* request is never sent, and the operator starts over.
Crash(p) ==
    /\ pc[p].st = "appended"
    /\ pc' = [pc EXCEPT ![p] = Idle]
    /\ lastOp' = Op("crash", p, pc[p].rid, pc[p].d, NoRelease, "killed")
    /\ UNCHANGED <<aws, calls, kind, now, nextId, table>>

ConcNext ==
    \E p \in Procs :
        \/ ConcCreateRelease(p)
        \/ ConcPut(p)
        \/ \E rid \in 1..MaxNew, env \in Envs : ConcCreate(p, rid, env)
        \/ AddDeployment_list_append(p)
        \/ AddDeployment_last_date_deployed(p)
        \/ Crash(p)

SpecConc == ConcInit /\ [][ConcNext]_vars

\* ------------------------------------------------------------------ the project
Err(name) == [ok |-> FALSE, val |-> NoRelease, err |-> name, msg |-> "none"]

\* A get_latest_release that never finds a release.
get_latest_release_none(k, t) ==
    IF k # "legacy" THEN Err("AttributeError") ELSE Ok(NoRelease)

\* DynamoDbReleaseStore.get_latest_release (releases_store.py): the newest
\* release, or None.  The stores of release_store.py define no such method,
\* so the call of Project._prepare_release raises AttributeError on them.
get_latest_release(k, t) ==
    IF k # "legacy" THEN Err("AttributeError")
    ELSE LET Items == Take(Values(sorted_reverse(ByDateCreated(Stored(t)))), 1)
         IN IF Len(Items) = 1 THEN Ok(Items[1]) ELSE Ok(NoRelease)

\* Project.get_release: "latest" is the store's get_most_recent_release(),
\* which the legacy store does not define.
Project_get_release(k, t, release_id) ==
    IF release_id = Latest
    THEN IF k = "legacy" THEN Err("AttributeError")
         ELSE LET res == get_most_recent_release(k, t)
              IN IF res.ok THEN res ELSE Err(res.err)
    ELSE LET res == get_release(k, t, release_id)
         IN IF res.ok THEN res ELSE Err(res.err)

\* {**release['images'], **filtered_images}
merge_images(base, filtered) ==
    [x \in DOMAIN base \cup DOMAIN filtered |->
        IF x \in DOMAIN filtered THEN filtered[x] ELSE base[x]]

\* An update that takes every resolved image, requested or not.
all_images(images, service_ids) == images

\* {k: v for k, v in images.items() if k in service_ids}
filter_images(images, service_ids) ==
    [x \in DOMAIN images \cap service_ids |-> images[x]]

\* Project._prepare_release: the outcome [ok, err, previous, new, table].
_prepare_release(k, t, description, release_images, release_id, date, user) ==
    LET previous_release == get_latest_release(k, t)
        new_release == _create_release(release_id, description, release_images, date, user)
    IN IF ~previous_release.ok
       THEN [ok |-> FALSE, err |-> previous_release.err, previous |-> NoRelease,
             new |-> NoRelease, table |-> t]
       ELSE [ok |-> TRUE, err |-> "none", previous |-> previous_release.val,
             new |-> new_release, table |-> put_release(t, new_release)]

\* A release that an earlier run of the tool left in the table.
EarlierRelease == _create_release(1, "earlier", ImagesV1, 1, "p1")

\* Project.prepare after get_images: the outcome [ok, err, previous, new, table].
prepare(k, t, release_images, release_id, date, user) ==
    IF DOMAIN release_images = {}
    THEN [ok |-> FALSE, err |-> "RuntimeError", previous |-> NoRelease, new |-> NoRelease,
          table |-> t]
    ELSE _prepare_release(k, t, "prepare", release_images, release_id, date, user)

\* Project.update after get_images: the outcome [ok, err, previous, new, table].
update(k, t, base_id, service_ids, images, release_id, date, user) ==
    LET release == Project_get_release(k, t, base_id)
        failed(err) == [ok |-> FALSE, err |-> err, previous |-> NoRelease,
                        new |-> NoRelease, table |-> t]
    IN IF ~release.ok THEN failed(release.err)
       ELSE IF \E service_id \in service_ids : service_id \notin DOMAIN images
       THEN failed("RuntimeError")
       ELSE _prepare_release(k, t, "update",
                merge_images(release.val.images, filter_images(images, service_ids)),
                release_id, date, user)

\* release_id=None of Project.get_deployments.
NoReleaseId == -1

\* Project.get_deployments(release_id, limit, environment_id): [err, val].
\* With a release_id the loop `assert d["release_id"] == release_id` runs
\* over the deployments of the release in order and stops at the first that
\* fails: KeyError when it has no such key, AssertionError when the key
\* holds another id.  Without a release_id the store is asked with
\* get_recent_deployments(environment=..., limit=...), keywords that the
\* method of the legacy store does not take (TypeError).  Either list is
\* sorted by date_created, newest first, and cut to limit.
Project_get_deployments(k, t, release_id, limit, environment_id, pageSize) ==
    LET release == get_release(k, t, release_id)
        stored == release.val.deployments
        failing == {i \in 1..Len(stored) :
                       \/ "release_id" \notin DOMAIN stored[i]
                       \/ stored[i].release_id # release_id}
        first == CHOOSE i \in failing : \A j \in failing : i <= j
        newest_first(deployments) ==
            Take(Values(sorted_reverse(ByDateCreated(deployments))), limit)
    IN IF release_id # NoReleaseId
       THEN IF ~release.ok THEN [err |-> release.err, val |-> <<>>]
            ELSE IF failing = {} THEN [err |-> "none", val |-> newest_first(stored)]
            ELSE IF "release_id" \notin DOMAIN stored[first]
            THEN [err |-> "KeyError", val |-> <<>>]
            ELSE [err |-> "AssertionError", val |-> <<>>]
       ELSE IF k = "legacy" THEN [err |-> "TypeError", val |-> <<>>]
       ELSE [err |-> "none",
             val |-> newest_first(get_recent_deployments(k, t, environment_id, limit,
                                                         pageSize))]

\* ------------------------------------------------------------------ deploy, call by call
\* The project's configuration: image_repositories[image_id]["services"], the
\* ids of the services an image backs.  Service s1 runs both images.
Services == [k \in Repos |-> IF k = "a" THEN <<"s1">> ELSE <<"s1", "s2">>]

\* resource.get("tags", []) of an AWS resource: a list of {"key", "value"}.
Tag(key, value) == [key |-> key, value |-> value]

\* An ECS service of the account, with its deployment:service and
\* deployment:env tags.
EcsService(arn, service_id, environment_id) ==
    [serviceArn |-> arn,
     tags |-> <<Tag("deployment:service", service_id), Tag("deployment:env", environment_id)>>]

NoService == EcsService("none", "none", NoEnv)

\* A fleet in which every tag pair names at most one service; s2 does not
\* run in stage.
FleetUnique ==
    {EcsService("s1-prod", "s1", "prod"), EcsService("s2-prod", "s2", "prod"),
     EcsService("s1-stage", "s1", "stage")}

\* A fleet with two services tagged s2/stage and two tagged s1/staging.
FleetAmbiguous ==
    FleetUnique \cup
        {EcsService("s2-stage", "s2", "stage"), EcsService("s2-stage-old", "s2", "stage"),
         EcsService("s1-staging", "s1", "staging"), EcsService("s1-staging-old", "s1", "staging")}

\* tags.parse_aws_tags: the list of {"key", "value"} as a dict; a key that
\* occurs twice fails the assertion.
parse_aws_tags(tags) ==
    IF \E i, j \in 1..Len(tags) : i # j /\ tags[i].key = tags[j].key
    THEN [ok |-> FALSE, result |-> << >>]
    ELSE [ok |-> TRUE,
          result |-> [k \in {tags[i].key : i \in 1..Len(tags)} |->
                         tags[CHOOSE i \in 1..Len(tags) : tags[i].key = k].value]]

\* A matcher that accepts a resource as soon as one expected tag is on it.
_is_match_any(resource, expected_tags) ==
    LET parsed == parse_aws_tags(IF "tags" \in DOMAIN resource THEN resource.tags ELSE <<>>)
        resource_tags == parsed.result
    IN IF ~parsed.ok THEN [err |-> "AssertionError", match |-> FALSE]
       ELSE [err |-> "none",
             match |-> \E k \in DOMAIN expected_tags :
                           k \in DOMAIN resource_tags /\ resource_tags[k] = expected_tags[k]]

\* find_unique_resource_matching_tags._is_match: the tags are parsed first,
\* so a resource that repeats a key raises whatever expected_tags holds;
\* [err, match] is the exception raised and the value returned.
_is_match(resource, expected_tags) ==
    LET resource_tags == parse_aws_tags(IF "tags" \in DOMAIN resource THEN resource.tags ELSE <<>>)
    IN IF ~resource_tags.ok THEN [err |-> "AssertionError", match |-> FALSE]
       ELSE [err |-> "none",
             match |-> \A k \in DOMAIN expected_tags :
                           k \in DOMAIN resource_tags.result
                               /\ resource_tags.result[k] = expected_tags[k]]

\* A find_unique_resource_matching_tags without the test for an empty
\* expected_tags: every resource matches an empty predicate.
find_unique_resource_unvalidated(resources, expected_tags) ==
    LET matching_resources == {r \in resources : _is_match(r, expected_tags).match}
    IN IF \E r \in resources : _is_match(r, expected_tags).err # "none"
       THEN [err |-> "AssertionError", response |-> NoService]
       ELSE IF Cardinality(matching_resources) = 1
       THEN [err |-> "none", response |-> CHOOSE r \in matching_resources : TRUE]
       ELSE IF matching_resources = {}
       THEN [err |-> "NoMatchingResourceError", response |-> NoService]
       ELSE [err |-> "MultipleMatchingResourcesError", response |-> NoService]

\* tags.find_unique_resource_matching_tags(resources, expected_tags=...):
\* _is_match runs on every resource before the matches are counted, and it
\* raises exactly when parse_aws_tags does.
find_unique_resource_matching_tags(resources, expected_tags) ==
    LET matching_resources == {r \in resources : _is_match(r, expected_tags).match}
    IN IF DOMAIN expected_tags = {}
       THEN [err |-> "ValueError", response |-> NoService]
       ELSE IF \E r \in resources : "tags" \in DOMAIN r /\ ~parse_aws_tags(r.tags).ok
       THEN [err |-> "AssertionError", response |-> NoService]
       ELSE IF Cardinality(matching_resources) = 1
       THEN [err |-> "none", response |-> CHOOSE r \in matching_resources : TRUE]
       ELSE IF matching_resources = {}
       THEN [err |-> "NoMatchingResourceError", response |-> NoService]
       ELSE [err |-> "MultipleMatchingResourcesError", response |-> NoService]

\* expected_tags={"deployment:service": service_id, "deployment:env": environment_id}
deployment_tags(service_id, environment_id) ==
    [k \in {"deployment:service", "deployment:env"} |->
        IF k = "deployment:service" THEN service_id ELSE environment_id]

\* Ecs.find_matching_service: the unique service with the two tags, None when
\* there is none, MultipleMatchingServicesError when there are several.
find_matching_service(fleet, service_id, environment_id) ==
    LET found == find_unique_resource_matching_tags(fleet, deployment_tags(service_id, environment_id))
    IN IF found.err = "MultipleMatchingResourcesError"
       THEN [err |-> "MultipleMatchingServicesError", response |-> NoService]
       ELSE [err |-> "none", response |-> found.response]

\* Project.get_ecs_services: image_id -> the services of the image that have a
\* match in the environment; the first ambiguous match raises.
get_ecs_services(fleet, image_ids, environment_id) ==
    LET _get_service(k) ==
            [i \in 1..Len(Services[k]) |->
                find_matching_service(fleet, Services[k][i], environment_id)]
        raised == \E k \in image_ids :
                      \E i \in 1..Len(Services[k]) :
                          _get_service(k)[i].err # "none"
        available_services(k) ==
            SelectSeq(_get_service(k), LAMBDA service : service.response # NoService)
    IN IF raised
       THEN [err |-> "MultipleMatchingServicesError",
             matched_services |-> [k \in image_ids |-> <<>>]]
       ELSE [err |-> "none",
             matched_services |->
                 [k \in image_ids |->
                     [i \in 1..Len(available_services(k)) |->
                         available_services(k)[i].response.serviceArn]]]

\* Position of an image id in the lexicographic order of the ids.
ord(image_id) == IF image_id = "a" THEN 1 ELSE 2

\* release['images'].items() of a mapping whose insertion order is `order`.
items(images, order) ==
    [i \in 1..Len(order) |-> [key |-> order[i], value |-> images[order[i]]]]

\* Iteration in insertion order, without sorting.
unsorted(its) == its

\* sorted(release['images'].items()): ascending by image id.
sorted(its) ==
    LET byKey == [i \in 1..Len(its) |-> [k |-> 0 - ord(its[i].key), v |-> its[i]]]
    IN Values(sorted_reverse(byKey))

\* Ecr.tag_image(tag=<ref>, new_tag="env.<environment_id>"): put_image moves
\* the tag ("success"), or answers ImageAlreadyExistsException when the tag is
\* on that image already ("noop").
tag_image(tags, image_id, tag, environment_id) ==
    [tag_operation |->
         [source |-> <<image_id, tag>>,
          target |-> <<image_id, environment_id>>,
          status |-> IF tags[image_id][environment_id] = tag THEN "noop" ELSE "success"],
     tags |-> [tags EXCEPT ![image_id][environment_id] = tag]]

\* One mutating AWS call of a deploy, as it is logged: tag_image on an image
\* id, or redeploy_service on a service on behalf of an image id.
Call(op, image_id, arn, status) ==
    [op |-> op, image_id |-> image_id, arn |-> arn, status |-> status]

\* A deploy that redeploys on every request, without the memo.
always_deploys(ecs_services_deployed, arn) == TRUE

\* A deploy that takes every service for redeployed already.
never_deploys(ecs_services_deployed, arn) == FALSE

\* _ecs_deploy: whether the service is redeployed now, which is when its
\* serviceArn is not in ecs_services_deployed yet.
_ecs_deploy(ecs_services_deployed, arn) == arn \notin ecs_services_deployed

\* A deploy that redeploys whatever the retag reported.
redeploys_on_noop(tag_result) == FALSE

\* if tag_result['status'] == 'noop': ecs_deployments = []
skips_redeploy(tag_result) == tag_result.status = "noop"

\* The list comprehension over matched_services.get(image_id, []): the
\* services from position i on.  fault is the number of the mutating call
\* that raises (0: none does), n the number of calls made so far.
RECURSIVE redeploy_services(_, _, _, _, _, _, _)
redeploy_services(image_id, services, i, ecs_services_deployed, log, n, fault) ==
    IF i > Len(services)
    THEN [ok |-> TRUE, memo |-> ecs_services_deployed, log |-> log, n |-> n,
          ecs_deployments |-> <<>>]
    ELSE LET arn == services[i]
         IN IF _ecs_deploy(ecs_services_deployed, arn)
            THEN IF n + 1 = fault
                 THEN [ok |-> FALSE, memo |-> ecs_services_deployed,
                       log |-> Append(log, Call("redeploy_service", image_id, arn, "raised")),
                       n |-> n + 1, ecs_deployments |-> <<>>]
                 ELSE LET rest == redeploy_services(image_id, services, i + 1,
                                      ecs_services_deployed \cup {arn},
                                      Append(log, Call("redeploy_service", image_id, arn, "ok")),
                                      n + 1, fault)
                      IN [rest EXCEPT !.ecs_deployments = <<arn>> \o @]
            ELSE LET rest == redeploy_services(image_id, services, i + 1,
                                 ecs_services_deployed, log, n, fault)
                 IN [rest EXCEPT !.ecs_deployments = <<arn>> \o @]

\* The loop of Project.deploy over the image ids, from position i on.
\* _tag_ecr_image starts with image_name.split(":"): the image id of a
\* release that has no image for it (None) raises AttributeError before any
\* call is made.
RECURSIVE deploy_images(_, _, _, _, _, _, _, _, _, _)
deploy_images(its, i, environment_id, matched_services, tags, ecs_services_deployed, log, n, fault, deployment_details) ==
    IF i > Len(its)
    THEN [ok |-> TRUE, err |-> "none", tags |-> tags, log |-> log,
          memo |-> ecs_services_deployed, details |-> deployment_details]
    ELSE LET image_id == its[i].key
         IN IF its[i].value = NoImage
            THEN [ok |-> FALSE, err |-> "AttributeError", tags |-> tags, log |-> log,
                  memo |-> ecs_services_deployed, details |-> deployment_details]
            ELSE IF n + 1 = fault
            THEN [ok |-> FALSE, err |-> "ClientError", tags |-> tags,
                  log |-> Append(log, Call("tag_image", image_id, "none", "raised")),
                  memo |-> ecs_services_deployed, details |-> deployment_details]
            ELSE LET tagged == tag_image(tags, image_id, its[i].value, environment_id)
                     tag_result == tagged.tag_operation
                     log1 == Append(log, Call("tag_image", image_id, "none", tag_result.status))
                     ecs == IF skips_redeploy(tag_result)
                            THEN [ok |-> TRUE, memo |-> ecs_services_deployed, log |-> log1,
                                  n |-> n + 1, ecs_deployments |-> <<>>]
                            ELSE redeploy_services(image_id, matched_services[image_id], 1,
                                     ecs_services_deployed, log1, n + 1, fault)
                 IN IF ~ecs.ok
                    THEN [ok |-> FALSE, err |-> "ClientError", tags |-> tagged.tags,
                          log |-> ecs.log, memo |-> ecs.memo,
                          details |-> deployment_details]
                    ELSE deploy_images(its, i + 1, environment_id, matched_services,
                             tagged.tags, ecs.memo, ecs.log, ecs.n, fault,
                             [x \in DOMAIN deployment_details \cup {image_id} |->
                                 IF x = image_id
                                 THEN [tag_result |-> tag_result,
                                       ecs_deployments |-> ecs.ecs_deployments]
                                 ELSE deployment_details[x]])

\* A deploy that raised before its loop: nothing is called, nothing changes.
\* got and expected are what the error message names.
Aborted(t, a, err, got, expected) ==
    [res |-> err, got |-> got, expected |-> expected, release_id |-> 0,
     log |-> <<>>, returned |-> NoDeployment, tags |-> a.tags, table |-> t]

\* A deploy that undoes its retags when a call raises.
rolled_back(t, a, release_id, ran) ==
    [res |-> ran.err, got |-> "none", expected |-> {}, release_id |-> release_id,
     log |-> ran.log, returned |-> NoDeployment, tags |-> a.tags, table |-> t]

\* A deploy whose loop raised, at a retag or a redeploy (ClientError) or at
\* an image id without image (AttributeError): the exception
\* leaves deploy(), nothing is returned, add_deployment is not reached, and
\* what the loop did so far stays done.
interrupted(t, a, release_id, ran) ==
    [res |-> ran.err, got |-> "none", expected |-> {}, release_id |-> release_id,
     log |-> ran.log, returned |-> NoDeployment, tags |-> ran.tags, table |-> t]

\* A deploy that reports a failed lookup only after it has retagged: the loop
\* runs over the release (or over EarlierRelease) before the error is raised.
deploy_then_validate(k, t, a, release_id, environment_id, order, fault, date, user) ==
    LET release == Project_get_release(k, t, release_id)
        images == IF release.ok THEN release.val.images ELSE EarlierRelease.images
        env == IF environment_id \in Envs THEN environment_id ELSE "prod"
        ran == deploy_images(sorted(items(images, order)), 1, env,
                   [x \in Repos |-> <<>>], a.tags, {}, <<>>, 0, 0, << >>)
    IN [res |-> "ValueError", got |-> environment_id, expected |-> Envs, release_id |-> 0,
        log |-> ran.log, returned |-> NoDeployment, tags |-> ran.tags, table |-> t]

\* Project.deploy(release_id, environment_id, description), as one call: what
\* it raises or returns, the mutating AWS calls it made in order, and the ECR
\* tags and the table it leaves.  order is the insertion order of
\* release['images'].
deploy(k, t, a, release_id, environment_id, order, fault, date, user) ==
    LET release == Project_get_release(k, t, release_id)
    IN IF ~release.ok
       THEN Aborted(t, a, release.err, "release_id", {})
       ELSE LET matched == get_ecs_services(a.fleet, Range(order), environment_id)
            IN IF matched.err # "none"
               THEN Aborted(t, a, matched.err, "service", {})
               ELSE IF environment_id \notin Envs
               THEN Aborted(t, a, "ValueError", environment_id, Envs)
               ELSE LET ran == deploy_images(sorted(items(release.val.images, order)), 1,
                                   environment_id, matched.matched_services, a.tags, {},
                                   <<>>, 0, fault, << >>)
                        deployment == _create_deployment(environment_id, ran.details,
                                          "deploy", date, user)
                    IN IF ~ran.ok
                       THEN interrupted(t, a, release.val.release_id, ran)
                       ELSE [res |-> "ok", got |-> "none", expected |-> {},
                             release_id |-> release.val.release_id, log |-> ran.log,
                             returned |-> deployment, tags |-> ran.tags,
                             table |-> add_deployment(k, t, release.val.release_id,
                                                      deployment)]

\* The insertion orders of an images mapping over the image ids.
Orders == {<<"a", "b">>, <<"b", "a">>}

\* Which of the mutating AWS calls of a deploy raises; 0: none.
Faults == 0..4

\* The environments a caller may ask for: the declared ones and one that the
\* project does not declare.
DeployEnvs == Envs \cup {"staging"}

\* ------------------------------------------------------------------ two callers of one project
\* Two operators run the tool on one project.  A step is one request of a
\* call to the table, the registry or ECS, or one reading of the clock; the
\* steps of the two calls interleave in any order.  While a call is under way
\* pc[p] holds its local variables.

\* A Project constructed over a store that is empty or holds EarlierRelease,
\* in an account whose ECS services are those of FleetUnique.
ProjInit ==
    /\ kind \in Kinds
    /\ pc = [p \in Procs |-> Idle]
    /\ lastOp = NoOp
    /\ aws = [Provisioned EXCEPT !.fleet = FleetUnique]
    /\ calls = NoCalls
    /\ \/ table = << >> /\ now = 1 /\ nextId = 1
       \/ table = put_release(<< >>, EarlierRelease) /\ now = 2 /\ nextId = 2

\* A call that raised before it wrote anything: only the call and its
\* exception are recorded.
Failed(p, op, rid, err) ==
    /\ lastOp' = Op(op, "none", 0, NoDeployment, NoRelease, err)
    /\ pc' = [pc EXCEPT ![p] = Idle]
    /\ UNCHANGED <<aws, calls, kind, table, now, nextId>>

\* _prepare_release, first statement: previous_release =
\* self.release_store.get_latest_release(), a Query on the legacy store and
\* an AttributeError on the others.
Queried(p, op, release_images) ==
    LET previous_release == get_latest_release(kind, table)
    IN IF ~previous_release.ok
       THEN Failed(p, op, 0, previous_release.err)
       ELSE /\ pc' = [pc EXCEPT ![p] = [st |-> "queried", rid |-> 0, d |-> NoDeployment,
                                        op |-> op, previous |-> previous_release.val,
                                        images |-> release_images]]
            /\ lastOp' = Op("get_latest_release", p, 0, NoDeployment,
                            previous_release.val, "ok")
            /\ UNCHANGED <<aws, calls, kind, table, now, nextId>>

\* Project.prepare(from_label, description) up to the Query of
\* _prepare_release; release_images is what get_images(from_label) resolves,
\* a dict over the configured repositories.
Prepare(p, release_images) ==
    /\ pc[p].st = "idle"
    /\ nextId <= MaxNew /\ now <= MaxTime
    /\ IF DOMAIN release_images = {}
       THEN Failed(p, "prepare", 0, "RuntimeError")
       ELSE Queried(p, "prepare", release_images)

\* Project.update(release_id, service_ids, from_label), first statement:
\* release = self.get_release(release_id), a GetItem.
Update(p, release_id, service_ids, images) ==
    /\ pc[p].st = "idle"
    /\ nextId <= MaxNew /\ now <= MaxTime
    /\ LET release == Project_get_release(kind, table, release_id)
       IN IF ~release.ok
          THEN Failed(p, "update", release_id, release.err)
          ELSE /\ pc' = [pc EXCEPT ![p] = [st |-> "read", rid |-> release_id,
                                           d |-> NoDeployment,
                                           base |-> release.val.images,
                                           service_ids |-> service_ids,
                                           images |-> images]]
               /\ lastOp' = Op("get_release", p, release_id, NoDeployment, NoRelease, "ok")
               /\ UNCHANGED <<aws, calls, kind, table, now, nextId>>

\* Project.update from get_images to the Query of _prepare_release: the
\* check of service_ids, the filter and the merge.
UpdateQuery(p) ==
    /\ pc[p].st = "read"
    /\ IF \E service_id \in pc[p].service_ids : service_id \notin DOMAIN pc[p].images
       THEN Failed(p, "update", pc[p].rid, "RuntimeError")
       ELSE Queried(p, "update",
                merge_images(pc[p].base, filter_images(pc[p].images, pc[p].service_ids)))

\* _prepare_release after its Query: _create_release draws the id and reads
\* the clock; requested_by is then fetched from STS, so the release is
\* stored some time later.
CreateRelease(p) ==
    /\ pc[p].st = "queried"
    /\ LET new_release == _create_release(nextId, pc[p].op, pc[p].images, now, p)
       IN /\ pc' = [pc EXCEPT ![p] = [st |-> "release", rid |-> nextId,
                                       d |-> NoDeployment, op |-> pc[p].op,
                                       previous |-> pc[p].previous,
                                       release |-> new_release]]
          /\ lastOp' = Op("create_release", p, nextId, NoDeployment, new_release, "ok")
    /\ now' = now + 1
    /\ nextId' = nextId + 1
    /\ UNCHANGED <<aws, calls, kind, table>>

\* _prepare_release, the end: put_release is the PutItem, and the call
\* returns the previous release together with the new one.
PutRelease(p) ==
    /\ pc[p].st = "release"
    /\ table' = put_release(table, pc[p].release)
    /\ lastOp' = Op(pc[p].op, p, pc[p].rid, NoDeployment, pc[p].previous, "ok")
    /\ pc' = [pc EXCEPT ![p] = Idle]
    /\ UNCHANGED <<aws, calls, kind, now, nextId>>

\* tag_result before _tag_ecr_image has returned.
NoTagResult == [source |-> <<>>, target |-> <<>>, status |-> "none"]

\* The list comprehension over matched_services.get(image_id, []) from
\* position j on, up to the next service that is not in ecs_services_deployed:
\* _ecs_deploy answers for the others from the memo, without a request.
RECURSIVE memoized(_, _, _, _)
memoized(services, j, ecs_services_deployed, ecs_deployments) ==
    IF j <= Len(services) /\ ~_ecs_deploy(ecs_services_deployed, services[j])
    THEN memoized(services, j + 1, ecs_services_deployed,
                  Append(ecs_deployments, services[j]))
    ELSE [j |-> j, ecs_deployments |-> ecs_deployments]

\* The loop of Project.deploy from a response to the next request: w holds
\* the locals of the call, tag_result is the retag of the image id at hand
\* and j the position reached in its services.  The call goes on to the
\* redeploy of the next service that is not memoized ("ecs"); when none is
\* left, deployment_details[image_id] is set and the call goes on to the
\* retag of the next image id ("tag") or, after the last, to
\* _create_deployment ("create").
proceed(w, tag_result, j, ecs_services_deployed, ecs_deployments) ==
    LET image_id == w.its[w.i].key
        services == IF skips_redeploy(tag_result) THEN <<>>
                    ELSE w.matched_services[image_id]
        next == memoized(services, j, ecs_services_deployed, ecs_deployments)
        deployment_details ==
            [x \in DOMAIN w.details \cup {image_id} |->
                IF x = image_id
                THEN [tag_result |-> tag_result, ecs_deployments |-> next.ecs_deployments]
                ELSE w.details[x]]
    IN IF next.j <= Len(services)
       THEN [w EXCEPT !.at = "ecs", !.j = next.j, !.tag_result = tag_result,
                      !.ecs_deployments = next.ecs_deployments,
                      !.ecs_services_deployed = ecs_services_deployed]
       ELSE [w EXCEPT !.at = IF w.i < Len(w.its) THEN "tag" ELSE "create",
                      !.i = w.i + 1, !.j = 1, !.tag_result = NoTagResult,
                      !.ecs_deployments = <<>>,
                      !.ecs_services_deployed = ecs_services_deployed,
                      !.details = deployment_details]

\* Project.deploy(release_id, environment_id, description) up to its loop:
\* get_release, get_ecs_services and the test of the environment.  order is
\* the insertion order of release['images'].  The GetItem is the one request
\* of these that reads what another call writes; the ECS services of the
\* account are the same throughout.
Deploy(p, release_id, environment_id, order) ==
    /\ pc[p].st = "idle"
    /\ now <= MaxTime
    /\ LET release == Project_get_release(kind, table, release_id)
           matched == get_ecs_services(aws.fleet, Range(order), environment_id)
       IN IF ~release.ok
          THEN Failed(p, "deploy", release_id, release.err)
          ELSE IF matched.err # "none"
          THEN Failed(p, "deploy", release_id, matched.err)
          ELSE IF environment_id \notin Envs
          THEN Failed(p, "deploy", release_id, "ValueError")
          ELSE /\ pc' = [pc EXCEPT ![p] =
                            [st |-> "deploying", rid |-> release.val.release_id,
                             d |-> NoDeployment, environment |-> environment_id,
                             its |-> sorted(items(release.val.images, order)), i |-> 1,
                             matched_services |-> matched.matched_services,
                             ecs_services_deployed |-> {}, details |-> << >>,
                             at |-> "tag", j |-> 1, tag_result |-> NoTagResult,
                             ecs_deployments |-> <<>>]]
               /\ lastOp' = Op("get_ecs_services", p, release.val.release_id,
                               NoDeployment, NoRelease, "ok")
               /\ UNCHANGED <<aws, calls, kind, table, now, nextId>>

\* A deploy whose loop raised: the exception leaves deploy(), no deployment
\* is created and the tags moved so far stay moved.
DeployRaised(p, err) ==
    /\ pc' = [pc EXCEPT ![p] = Idle]
    /\ lastOp' = Op("deploy", "none", 0, NoDeployment, NoRelease, err)

\* The loop of Project.deploy, _tag_ecr_image of the image id at hand: the
\* registry moves env.<environment_id> when it serves put_image; the
\* batch_get_image before it reads the ref tag, which no call moves.  An
\* image id without image (None) raises AttributeError before any request;
\* fault: the registry answers with a ClientError that is raised again.
DeployTag(p, fault) ==
    /\ pc[p].st = "deploying" /\ pc[p].at = "tag"
    /\ LET w == pc[p]
           image_id == w.its[w.i].key
           image_name == w.its[w.i].value
           tagged == tag_image(aws.tags, image_id, image_name, w.environment)
       IN IF image_name = NoImage
          THEN DeployRaised(p, "AttributeError") /\ aws' = aws
          ELSE IF fault
          THEN DeployRaised(p, "ClientError") /\ aws' = aws
          ELSE /\ aws' = [aws EXCEPT !.tags = tagged.tags]
               /\ pc' = [pc EXCEPT ![p] = proceed(w, tagged.tag_operation, 1,
                                                  w.ecs_services_deployed, <<>>)]
               /\ lastOp' = Op("tag_image", p, w.rid, NoDeployment, NoRelease, "ok")
    /\ UNCHANGED <<calls, kind, nextId, table, now>>

\* The loop of Project.deploy, _ecs_deploy of a service that is not in the
\* memo: the redeploy request to ECS; fault: it raises.
DeployEcs(p, fault) ==
    /\ pc[p].st = "deploying" /\ pc[p].at = "ecs"
    /\ LET w == pc[p]
           arn == w.matched_services[w.its[w.i].key][w.j]
       IN IF fault
          THEN DeployRaised(p, "ClientError")
          ELSE /\ pc' = [pc EXCEPT ![p] = proceed(w, w.tag_result, w.j + 1,
                                                  w.ecs_services_deployed \cup {arn},
                                                  Append(w.ecs_deployments, arn))]
               /\ lastOp' = Op("redeploy_service", p, w.rid, NoDeployment, NoRelease, "ok")
    /\ UNCHANGED <<aws, calls, kind, nextId, table, now>>

\* Project.deploy after its loop: _create_deployment reads the clock;
\* requested_by is then fetched from STS, so the deployment is stored some
\* time later.
DeployCreate(p) ==
    /\ pc[p].st = "deploying" /\ pc[p].at = "create"
    /\ LET w == pc[p]
           d == _create_deployment(w.environment, w.details, "deploy", now, p)
       IN /\ pc' = [pc EXCEPT ![p] = [st |-> "created", rid |-> w.rid, d |-> d]]
          /\ lastOp' = Op("create_deployment", p, w.rid, d, NoRelease, "ok")
    /\ now' = now + 1
    /\ UNCHANGED <<aws, calls, kind, nextId, table>>

\* Project.deploy, the end, on the memory store: add_deployment appends and
\* sets last_date_deployed in the dict of the process, without a request,
\* and deploy returns the deployment.
AddDeployment_memory(p) ==
    /\ kind = "memory"
    /\ pc[p].st = "created"
    /\ table' = Memory_add_deployment(table, pc[p].rid, pc[p].d)
    /\ pc' = [pc EXCEPT ![p] = Idle]
    /\ lastOp' = Op("add_deployment", p, pc[p].rid, pc[p].d, NoRelease, "ok")
    /\ UNCHANGED <<aws, calls, kind, now, nextId>>

Next ==
    \E p \in Procs :
        \/ \E images \in {ImagesV1, ImagesPartial, << >>} : Prepare(p, images)
        \/ \E rid \in {Latest} \cup (1..MaxNew), ids \in {{"a"}, {"a", "b"}, {"zzz"}} :
               Update(p, rid, ids, ImagesV2)
        \/ UpdateQuery(p)
        \/ CreateRelease(p)
        \/ PutRelease(p)
        \/ \E rid \in {Latest} \cup (1..MaxNew), env \in {"prod", "staging"},
              order \in Orders :
               Deploy(p, rid, env, order)
        \/ \E fault \in BOOLEAN : DeployTag(p, fault)
        \/ \E fault \in BOOLEAN : DeployEcs(p, fault)
        \/ DeployCreate(p)
        \/ AddDeployment_memory(p)
        \/ AddDeployment_list_append(p)
        \/ AddDeployment_last_date_deployed(p)

Spec == ProjInit /\ [][Next]_vars

\* A project with one release stored, over a fleet of ECS services.
DeployInit ==
    /\ kind \in {"memory", "dynamo"}
    /\ table = put_release(<< >>, EarlierRelease)
    /\ pc = [p \in Procs |-> Idle]
    /\ now = 2
    /\ nextId = 2
    /\ lastOp = NoOp
    /\ aws \in {[Provisioned EXCEPT !.fleet = f] : f \in {FleetUnique, FleetAmbiguous}}
    /\ calls = NoCalls

\* release_store.put_release(release) of a later release, with other images
\* or with no image for b.  The stores of release_store.py are filled through
\* put_release itself: Project._prepare_release raises on them.
DeployPut(images) ==
    /\ nextId <= MaxRel
    /\ now <= MaxTime
    /\ LET release == _create_release(nextId, "later", images, now, "p1")
       IN /\ table' = put_release(table, release)
          /\ lastOp' = Op("put_release", "p1", nextId, NoDeployment, release, "ok")
    /\ nextId' = nextId + 1
    /\ now' = now + 1
    /\ UNCHANGED <<aws, calls, kind, pc>>

\* One call of Project.deploy.
DeployCall(release_id, environment_id, order, fault) ==
    /\ now <= MaxTime
    /\ LET out == deploy(kind, table, aws, release_id, environment_id, order, fault,
                         now, "p1")
       IN /\ calls' = [rid |-> release_id, environment |-> environment_id,
                       order |-> order, release_id |-> out.release_id,
                       res |-> out.res, got |-> out.got, expected |-> out.expected,
                       log |-> out.log, returned |-> out.returned]
          /\ aws' = [aws EXCEPT !.tags = out.tags]
          /\ table' = out.table
          /\ lastOp' = Op("deploy", "p1", release_id, out.returned, NoRelease, out.res)
          /\ now' = now + 1
    /\ UNCHANGED <<kind, pc, nextId>>

DeployNext ==
    \/ \E images \in {ImagesV2, ImagesPartial} : DeployPut(images)
    \/ \E release_id \in RelIds, environment_id \in DeployEnvs,
          order \in Orders, fault \in Faults :
           DeployCall(release_id, environment_id, order, fault)

SpecDeploy == DeployInit /\ [][DeployNext]_vars

\* ------------------------------------------------------------------ matching by tags
\* A find_matching_service that settles an ambiguity by taking one of the
\* matching services.
find_matching_service_any(service_descriptions, service_id, environment_id) ==
    LET matching == {r \in service_descriptions : _is_match(r, deployment_tags(service_id, environment_id)).match}
    IN IF \E r \in service_descriptions : _is_match(r, deployment_tags(service_id, environment_id)).err # "none"
       THEN [err |-> "AssertionError", response |-> NoService]
       ELSE IF matching = {} THEN [err |-> "NoMatchingServiceError", response |-> NoService]
       ELSE [err |-> "none", response |-> CHOOSE r \in matching : TRUE]

\* ecs.find_matching_service(service_descriptions, service_id=, environment_id=),
\* the function of module ecs.
ecs_find_matching_service(service_descriptions, service_id, environment_id) ==
    LET found == find_unique_resource_matching_tags(service_descriptions, deployment_tags(service_id, environment_id))
    IN [err |-> IF found.err = "NoMatchingResourceError" THEN "NoMatchingServiceError"
                ELSE IF found.err = "MultipleMatchingResourcesError"
                THEN "MultipleMatchingServicesError"
                ELSE found.err,
        response |-> found.response]

\* The configured services of the image ids of a release that are image
\* repositories of the project, each with the outcome of its match.
matches_for_release(image_ids, service_descriptions, environment_id) ==
    [k \in image_ids \cap Repos |->
        [i \in 1..Len(Services[k]) |->
            [service_id |-> Services[k][i],
             found |-> ecs_find_matching_service(service_descriptions, Services[k][i], environment_id)]]]

\* The exceptions that leave the loops over a release: the callers of
\* find_matching_service catch NoMatchingServiceError and nothing else.
raised_for_release(matches) ==
    UNION {{matches[k][i].found.err : i \in DOMAIN matches[k]} : k \in DOMAIN matches}
        \ {"none", "NoMatchingServiceError"}

\* ecs.find_service_arns_for_release: image id -> the serviceArns of its
\* matched services; [] for an image id with none.  A description that
\* repeats a tag key fails every match, so its AssertionError is the
\* exception of the first match made.
find_service_arns_for_release(image_ids, service_descriptions, environment_id) ==
    LET matches == matches_for_release(image_ids, service_descriptions, environment_id)
        matched(k) == SelectSeq(matches[k], LAMBDA m : m.found.err = "none")
        raised == raised_for_release(matches)
    IN IF "AssertionError" \in raised
       THEN [err |-> "AssertionError", result |-> << >>]
       ELSE IF raised # {}
       THEN [err |-> "MultipleMatchingServicesError", result |-> << >>]
       ELSE [err |-> "none",
             result |-> [k \in image_ids |->
                            IF k \in DOMAIN matches
                            THEN [i \in 1..Len(matched(k)) |-> matched(k)[i].found.response.serviceArn]
                            ELSE <<>>]]

\* ecs.find_ecs_services_for_release: image id -> {service id: description}.
\* Each match assigns matched_services[image_id] = {service_id: description},
\* so an image id keeps the last of its matched services.
find_ecs_services_for_release(image_ids, service_descriptions, environment_id) ==
    LET matches == matches_for_release(image_ids, service_descriptions, environment_id)
        matched(k) == SelectSeq(matches[k], LAMBDA m : m.found.err = "none")
        last(k) == matched(k)[Len(matched(k))]
        raised == raised_for_release(matches)
    IN IF "AssertionError" \in raised
       THEN [err |-> "AssertionError", matched_services |-> << >>]
       ELSE IF raised # {}
       THEN [err |-> "MultipleMatchingServicesError", matched_services |-> << >>]
       ELSE [err |-> "none",
             matched_services |->
                 [k \in {x \in DOMAIN matches : Len(matched(x)) > 0} |->
                     [x \in {last(k).service_id} |-> last(k).found.response]]]

\* Service descriptions a fleet can hold: tagged for s1/prod (one with a
\* further tag, in another order), for s2/prod (two of them) and s1/stage,
\* tagged with the service only, and without a tags field.  AWS keeps the keys
\* of the tags of one resource distinct.
Descriptions ==
    {EcsService("s1-prod", "s1", "prod"),
     [serviceArn |-> "s1-prod-x",
      tags |-> <<Tag("team", "x"), Tag("deployment:env", "prod"), Tag("deployment:service", "s1")>>],
     EcsService("s2-prod", "s2", "prod"),
     EcsService("s2-prod-old", "s2", "prod"),
     EcsService("s1-stage", "s1", "stage"),
     [serviceArn |-> "s1-any", tags |-> <<Tag("deployment:service", "s1")>>],
     [serviceArn |-> "untagged"]}

\* expected_tags arguments: empty, one pair, two pairs.
ExpectedTagsArgs ==
    {<< >>, [k \in {"deployment:service"} |-> "s1"], deployment_tags("s1", "prod"),
     deployment_tags("s2", "prod"), deployment_tags("s2", "stage")}

\* The image ids of a release: the configured ones, or with one that is not
\* an image repository of the project.
ImageIdArgs == {Repos, {"a"}, {"b", "x"}}

\* Any fleet of service descriptions; nothing has been asked yet.
MatchInit ==
    /\ kind = "memory"
    /\ table = << >>
    /\ pc = [p \in Procs |-> Idle]
    /\ now = 1
    /\ nextId = 1
    /\ lastOp = NoOp
    /\ aws \in {[Provisioned EXCEPT !.fleet = f] : f \in SUBSET Descriptions}
    /\ calls = NoCalls

\* A call of one of the matching functions on the fleet: what it was asked
\* and what it raised or returned.
Asked(op, args, environment_id, err, val) ==
    /\ calls' = [op |-> op, args |-> args, environment |-> environment_id, err |-> err, val |-> val]
    /\ lastOp' = Op(op, "p1", 0, NoDeployment, NoRelease, err)
    /\ UNCHANGED <<kind, table, pc, now, nextId, aws>>

MatchTags(expected_tags) ==
    LET out == find_unique_resource_matching_tags(aws.fleet, expected_tags)
    IN Asked("find_unique_resource_matching_tags", expected_tags, NoEnv, out.err, out.response)

MatchService(service_id, environment_id) ==
    LET out == ecs_find_matching_service(aws.fleet, service_id, environment_id)
    IN Asked("find_matching_service", service_id, environment_id, out.err, out.response)

MatchArns(image_ids, environment_id) ==
    LET out == find_service_arns_for_release(image_ids, aws.fleet, environment_id)
    IN Asked("find_service_arns_for_release", image_ids, environment_id, out.err, out.result)

MatchEcsServices(image_ids, environment_id) ==
    LET out == find_ecs_services_for_release(image_ids, aws.fleet, environment_id)
    IN Asked("find_ecs_services_for_release", image_ids, environment_id, out.err, out.matched_services)

MatchNext ==
    \/ \E expected_tags \in ExpectedTagsArgs : MatchTags(expected_tags)
    \/ \E service_id \in {"s1", "s2"}, environment_id \in Envs : MatchService(service_id, environment_id)
    \/ \E image_ids \in ImageIdArgs, environment_id \in Envs : MatchArns(image_ids, environment_id)
    \/ \E image_ids \in ImageIdArgs, environment_id \in Envs : MatchEcsServices(image_ids, environment_id)

SpecMatch == MatchInit /\ [][MatchNext]_vars

\* ------------------------------------------------------------------ the registry
\* Repositories as publishing leaves them: image i1 labelled latest with one
\* ref tag or with two, a ref-tagged image without the label, a labelled
\* image that was never ref-tagged, and an empty repository.
Repositories ==
    {("latest" :> "i1" @@ "ref.1" :> "i1" @@ "ref.2" :> "i2") @@ Untagged,
     ("latest" :> "i1" @@ "ref.1" :> "i1" @@ "ref.2" :> "i1") @@ Untagged,
     ("ref.1" :> "i1") @@ Untagged,
     ("latest" :> "i1" @@ "env.prod" :> "i1") @@ Untagged,
     Untagged}

\* A tag_image that reports every retag as a success.
tag_image_always_success(repository, tag, new_tag, fault) ==
    IF repository[tag] = "none" THEN [err |-> "RuntimeError", status |-> "none", repository |-> repository]
    ELSE [err |-> "none", status |-> "success",
          repository |-> [repository EXCEPT ![new_tag] = repository[tag]]]

\* Ecr.tag_image(tag=, new_tag=) on one repository: the manifest of the image
\* tagged `tag` is put under new_tag.  put_image answers
\* ImageAlreadyExistsException when new_tag is on that image already; fault
\* is another ClientError of put_image.
Ecr_tag_image(repository, tag, new_tag, fault) ==
    LET manifests == IF repository[tag] = "none" THEN <<>> ELSE <<repository[tag]>>
    IN IF Len(manifests) = 0
       THEN [err |-> "RuntimeError", status |-> "none", repository |-> repository]
       ELSE IF fault # "none"
       THEN [err |-> "ClientError", status |-> "none", repository |-> repository]
       ELSE IF repository[new_tag] = manifests[1]
       THEN [err |-> "none", status |-> "noop", repository |-> repository]
       ELSE [err |-> "none", status |-> "success",
             repository |-> [repository EXCEPT ![new_tag] = manifests[1]]]

\* A get_ref_tags_for_image that returns every tag of the image.
get_tags_for_image(repository, tag, fault) ==
    IF fault # "none" THEN [err |-> "ClientError", ref_tags |-> {}]
    ELSE IF repository[tag] = "none" THEN [err |-> "NoSuchImageError", ref_tags |-> {}]
    ELSE [err |-> "none", ref_tags |-> {t \in ImageTags : repository[t] = repository[tag]}]

\* ecr.get_ref_tags_for_image: describe_images of the image tagged `tag`
\* (ImageNotFoundException when there is none; fault is another ClientError),
\* then its tags that start with "ref.".
get_ref_tags_for_image(repository, tag, fault) ==
    LET tags == {t \in ImageTags : repository[t] = repository[tag]}
        ref_tags == {t \in tags : startswith_ref(t)}
    IN IF fault # "none" THEN [err |-> "ClientError", ref_tags |-> {}]
       ELSE IF repository[tag] = "none" THEN [err |-> "NoSuchImageError", ref_tags |-> {}]
       ELSE IF ref_tags = {} THEN [err |-> "NoRefTagError", ref_tags |-> {}]
       ELSE [err |-> "none", ref_tags |-> ref_tags]

\* Ecr.publish_image(namespace, image_id): local_image_tag is what
\* .releases/<image_id> holds, image the local Docker image named
\* <image_id>:<local_image_tag>; docker push puts it under
\* ref.<local_image_tag>.  fault: docker tag or docker push fails and
\* cmd raises CalledProcessError.
Ecr_publish_image(repository, local_image_tag, image, fault) ==
    LET remote_image_tag == "ref." \o local_image_tag
    IN IF fault # "none"
       THEN [err |-> "CalledProcessError", remote_image_tag |-> "none",
             repository |-> repository]
       ELSE [err |-> "none", remote_image_tag |-> remote_image_tag,
             repository |-> [repository EXCEPT ![remote_image_tag] = image]]

\* publish.publish_image(account_id, namespace, service_id, label,
\* region_id).  image_tag is the content of .releases/<service_id>,
\* labelled_image the local image <service_id>:<label> and tagged_image the
\* local image <service_id>:<image_tag>, one and the same image when label
\* and image_tag are equal.  The commands are, in order: docker tag and
\* docker push of the labelled image (remote tag label), docker tag and
\* docker push of the tagged image (remote tag image_tag), and in the finally
\* block docker rmi of the one local name and of the other.  fault is the
\* number of the command that fails (0: none does); cmd raises
\* CalledProcessError.  The second docker rmi finds no image when the two
\* local names are equal, and fails.  The pushes made before a failure stay.
\* The value returned is tag_image_name, f"{service_id}:{image_tag}".
publish_image(repository, service_id, label, image_tag, labelled_image, tagged_image, fault) ==
    LET tag_image_name == service_id \o ":" \o image_tag
        local_image == IF label = image_tag THEN labelled_image ELSE tagged_image
        labelled == [repository EXCEPT ![label] = labelled_image]
        tagged == [labelled EXCEPT ![image_tag] = local_image]
        raised(pushed) == [err |-> "CalledProcessError", val |-> "none", repository |-> pushed]
    IN IF fault \in {1, 2} THEN raised(repository)
       ELSE IF fault \in {3, 4} THEN raised(labelled)
       ELSE IF fault \in {5, 6} \/ label = image_tag THEN raised(tagged)
       ELSE [err |-> "none", val |-> tag_image_name, repository |-> tagged]

\* The registry of the account; nothing has been called yet.
EcrInit ==
    /\ kind = "memory"
    /\ table = << >>
    /\ pc = [p \in Procs |-> Idle]
    /\ now = 1
    /\ nextId = 1
    /\ lastOp = NoOp
    /\ aws \in {[Provisioned EXCEPT !.registry = [r \in Repos |-> IF r = "a" THEN x ELSE Untagged]] :
                   x \in Repositories}
    /\ calls = NoCalls

\* One call of Ecr.tag_image.  again: the call before was the same call and
\* returned.
TagImage(image_id, tag, new_tag, fault) ==
    LET out == Ecr_tag_image(aws.registry[image_id], tag, new_tag, fault)
        args == <<image_id, tag, new_tag>>
    IN /\ calls' = [op |-> "tag_image", args |-> args, err |-> out.err, val |-> out.status,
                    before |-> aws.registry[image_id],
                    again |-> (lastOp.op = "tag_image" /\ lastOp.res = "none" /\ calls.args = args)]
       /\ aws' = [aws EXCEPT !.registry[image_id] = out.repository]
       /\ lastOp' = Op("tag_image", "p1", 0, NoDeployment, NoRelease, out.err)
       /\ UNCHANGED <<kind, table, pc, now, nextId>>

\* One call of get_ref_tags_for_image.
GetRefTags(image_id, tag, fault) ==
    LET out == get_ref_tags_for_image(aws.registry[image_id], tag, fault)
    IN /\ calls' = [op |-> "get_ref_tags_for_image", args |-> <<image_id, tag, fault>>,
                    err |-> out.err, val |-> out.ref_tags,
                    before |-> aws.registry[image_id], again |-> FALSE]
       /\ lastOp' = Op("get_ref_tags_for_image", "p1", 0, NoDeployment, NoRelease, out.err)
       /\ UNCHANGED <<kind, table, pc, now, nextId, aws>>

\* One call of Ecr.publish_image.
PublishImage(image_id, local_image_tag, image, fault) ==
    LET out == Ecr_publish_image(aws.registry[image_id], local_image_tag, image, fault)
    IN /\ calls' = [op |-> "publish_image", args |-> <<image_id, local_image_tag, image>>,
                    err |-> out.err, val |-> out.remote_image_tag,
                    before |-> aws.registry[image_id], again |-> FALSE]
       /\ aws' = [aws EXCEPT !.registry[image_id] = out.repository]
       /\ lastOp' = Op("publish_image", "p1", 0, NoDeployment, NoRelease, out.err)
       /\ UNCHANGED <<kind, table, pc, now, nextId>>

\* One call of publish.publish_image.
PublishLabel(service_id, label, image_tag, labelled_image, tagged_image, fault) ==
    LET out == publish_image(aws.registry[service_id], service_id, label, image_tag,
                   labelled_image, tagged_image, fault)
    IN /\ calls' = [op |-> "publish", args |-> <<service_id, label, image_tag>>,
                    err |-> out.err, val |-> out.val,
                    before |-> aws.registry[service_id], again |-> FALSE]
       /\ aws' = [aws EXCEPT !.registry[service_id] = out.repository]
       /\ lastOp' = Op("publish", "p1", 0, NoDeployment, NoRelease, out.err)
       /\ UNCHANGED <<kind, table, pc, now, nextId>>

EcrNext ==
    \/ \E local_image_tag \in {"1", "2"}, image \in {"i1", "i2"},
          fault \in {"none", "CalledProcessError"} :
           PublishImage("a", local_image_tag, image, fault)
    \/ \E image_tag \in {"ref.1", "latest"}, tagged_image \in {"i1", "i2"}, fault \in 0..6 :
           PublishLabel("a", "latest", image_tag, "i1", tagged_image, fault)
    \/ \E image_id \in Repos, tag \in ImageTags, new_tag \in {"latest", "env.prod"},
          fault \in {"none", "AccessDeniedException"} :
           TagImage(image_id, tag, new_tag, fault)
    \/ \E image_id \in Repos, tag \in ImageTags, fault \in {"none", "AccessDeniedException"} :
           GetRefTags(image_id, tag, fault)

SpecEcr == EcrInit /\ [][EcrNext]_vars

\* ------------------------------------------------------------------ prepare and update from the registry
\* ecr.get_ref_tags_for_repositories: repository id -> the ref tags of its
\* image tagged `tag`, set() for NoSuchImageError; NoRefTagError is not
\* caught.
get_ref_tags_for_repositories(registry, tag) ==
    LET ref_uri == [r \in Repos |-> get_ref_tags_for_image(registry[r], tag, "none")]
    IN IF \E r \in Repos : ref_uri[r].err = "NoRefTagError"
       THEN [err |-> "NoRefTagError", result |-> << >>]
       ELSE [err |-> "none", result |-> [r \in Repos |-> ref_uri[r].ref_tags]]

\* Project.get_images: image id -> ref_tags.pop(), any one of the ref tags,
\* or None for an empty set.  results holds every dict the call can return.
get_images(registry, from_label) ==
    LET ref_tags_resp == get_ref_tags_for_repositories(registry, from_label)
    IN IF ref_tags_resp.err # "none" THEN [err |-> ref_tags_resp.err, results |-> {<< >>}]
       ELSE [err |-> "none",
             results |-> {result \in [Repos -> ImageTags \cup {NoImage}] :
                             \A r \in Repos :
                                 IF ref_tags_resp.result[r] = {} THEN result[r] = NoImage
                                 ELSE result[r] \in ref_tags_resp.result[r]}]

\* A project over a registry, with a store that is empty or holds
\* EarlierRelease.
PrepInit ==
    /\ kind \in {"legacy", "dynamo"}
    /\ pc = [p \in Procs |-> Idle]
    /\ lastOp = NoOp
    /\ aws \in {[Provisioned EXCEPT !.registry = [r \in Repos |-> IF r = "a" THEN x ELSE y]] :
                   x \in Repositories, y \in Repositories}
    /\ calls = NoCalls
    /\ \/ table = << >> /\ now = 1 /\ nextId = 1
       \/ table = put_release(<< >>, EarlierRelease) /\ now = 2 /\ nextId = 2

\* What a call of prepare or update leaves: its arguments, the images that
\* get_images resolved, the release the update was based on, and its outcome.
Called(op, args, images, base, out) ==
    /\ calls' = [op |-> op, args |-> args, images |-> images, base |-> base,
                 err |-> out.err, val |-> [new |-> out.new, previous |-> out.previous]]
    /\ table' = out.table
    /\ lastOp' = Op(op, "p1", out.new.release_id, NoDeployment, out.previous, out.err)
    /\ now' = IF out.ok THEN now + 1 ELSE now
    /\ nextId' = IF out.ok THEN nextId + 1 ELSE nextId
    /\ UNCHANGED <<kind, pc, aws>>

\* An outcome for a call in which get_images raised.
Raised(err) ==
    [ok |-> FALSE, err |-> err, previous |-> NoRelease, new |-> NoRelease, table |-> table]

\* Project.prepare(from_label, description)
PrepareCall(from_label) ==
    /\ nextId <= MaxNew /\ now <= MaxTime
    /\ LET got == get_images(aws.registry, from_label)
       IN \E release_images \in got.results :
              Called("prepare", <<from_label>>, release_images, NoRelease,
                     IF got.err # "none" THEN Raised(got.err)
                     ELSE prepare(kind, table, release_images, nextId, now, "p1"))

\* Project.update(release_id, service_ids, from_label)
UpdateCall(release_id, service_ids, from_label) ==
    /\ nextId <= MaxNew /\ now <= MaxTime
    /\ LET release == Project_get_release(kind, table, release_id)
           got == get_images(aws.registry, from_label)
       IN \E images \in got.results :
              Called("update", <<release_id, service_ids, from_label>>, images, release.val,
                     IF release.ok /\ got.err # "none" THEN Raised(got.err)
                     ELSE update(kind, table, release_id, service_ids, images, nextId, now, "p1"))

PrepNext ==
    \/ \E from_label \in {"latest", "env.prod"} : PrepareCall(from_label)
    \/ \E release_id \in {Latest} \cup (1..MaxNew), service_ids \in {{"a"}, {"a", "b"}, {"zzz"}},
          from_label \in {"latest", "env.prod"} :
           UpdateCall(release_id, service_ids, from_label)

SpecPrepare == PrepInit /\ [][PrepNext]_vars

\* ------------------------------------------------------------------ the project configuration
\* A config is the dict read from the project file; a key the dict does not
\* have is Absent, an override that is not given is None.
Absent == "absent"
None == "None"
DEFAULT_ECR_NAMESPACE == "uk.ac.wellcome"
DEFAULT_REGION_NAME == "eu-west-1"

\* iam.get_account_id: the fifth field of the ARN, ValueError for a string
\* that does not split into the six fields of an IAM role ARN.
get_account_id(role_arn) ==
    IF role_arn = "arn:aws:iam::111:role/r" THEN [err |-> "none", account |-> "111"]
    ELSE IF role_arn = "arn:aws:iam::222:role/r" THEN [err |-> "none", account |-> "222"]
    ELSE [err |-> "ValueError", account |-> None]

\* collections.Counter over the ids of a list: the ids counted more than once.
duplicates(ids) ==
    {ids[i] : i \in {j \in 1..Len(ids) : \E k \in 1..Len(ids) : k # j /\ ids[k] = ids[j]}}

\* The truth value of an override in `if namespace and ...`, `if role_arn:`,
\* `region_name or DEFAULT`: None and the empty string count as not given.
truthy(override) == override # None /\ override # ""

\* The pattern of prepare_config for namespace and region_name: a differing
\* override wins, a missing key takes the override or the default.
override_or_default(value, override, default) ==
    IF truthy(override) /\ value # Absent /\ value # override THEN override
    ELSE IF value = Absent THEN (IF truthy(override) THEN override ELSE default)
    ELSE value

\* The role_arn block of prepare_config.
override_role_arn(value, override) ==
    IF truthy(override) /\ value # Absent /\ value # override THEN override
    ELSE IF truthy(override) /\ value = Absent THEN override
    ELSE value

\* The account_id block of prepare_config: the override is assigned only
\* under `account_id and ("account_id" in config) and (... != account_id)`;
\* a config still without the key takes the account of the role ARN.
override_account_id(value, override, iam_role_account_id) ==
    LET preferred == IF truthy(override) /\ value # Absent /\ value # override
                     THEN override ELSE value
    IN IF preferred = Absent THEN iam_role_account_id ELSE preferred

\* prepare_config(config, namespace, role_arn, region_name, account_id):
\* mutates config in place; [err, config] is the exception raised and the
\* dict as the call leaves it.
prepare_config(config, namespace, role_arn, region_name, account_id) ==
    LET c1 == [config EXCEPT !.namespace =
                   override_or_default(@, namespace, DEFAULT_ECR_NAMESPACE)]
        c2 == [c1 EXCEPT !.role_arn = override_role_arn(@, role_arn)]
        c3 == [c2 EXCEPT !.region_name =
                   override_or_default(@, region_name, DEFAULT_REGION_NAME)]
        iam_role_account_id == get_account_id(c3.role_arn)
        c4 == [c3 EXCEPT !.account_id =
                   IF truthy(account_id) /\ @ # Absent /\ @ # account_id
                   THEN account_id ELSE @]
    IN IF c2.role_arn = Absent THEN [err |-> "ConfigError", config |-> c2]
       ELSE IF duplicates(c3.image_repositories) # {}
       THEN [err |-> "ConfigError", config |-> c3]
       ELSE IF duplicates(c3.environments) # {}
       THEN [err |-> "ConfigError", config |-> c3]
       ELSE IF iam_role_account_id.err # "none"
       THEN [err |-> iam_role_account_id.err, config |-> c4]
       ELSE [err |-> "none",
             config |-> [c3 EXCEPT !.account_id =
                            override_account_id(@, account_id, iam_role_account_id.account)]]

AccountIds == {"111", "222", "333"}

\* The project files and the command-line overrides.
Configs ==
    [namespace : {Absent, "org.example"},
     role_arn : {Absent, "role/r", "arn:aws:iam::111:role/r", "arn:aws:iam::222:role/r"},
     region_name : {Absent, "us-east-1"},
     account_id : {Absent} \cup AccountIds,
     image_repositories : {<<>>, <<"a", "b">>, <<"a", "b", "a">>},
     environments : {<<"prod", "stage">>, <<"prod", "prod">>}]

ConfigInit ==
    /\ kind = "dynamo"
    /\ table = << >>
    /\ pc = [p \in Procs |-> Idle]
    /\ now = 1
    /\ nextId = 1
    /\ lastOp = NoOp
    /\ aws = Provisioned
    /\ calls = NoCalls

\* Projects.load: prepare_config(config, **kwargs) on the config of the file.
PrepareConfig(config, namespace, role_arn, region_name, account_id) ==
    /\ LET out == prepare_config(config, namespace, role_arn, region_name, account_id)
       IN /\ calls' = [op |-> "prepare_config", config |-> config,
                       args |-> [namespace |-> namespace, role_arn |-> role_arn,
                                 region_name |-> region_name, account_id |-> account_id],
                       err |-> out.err, val |-> out.config]
          /\ lastOp' = Op("prepare_config", "p1", 0, NoDeployment, NoRelease, out.err)
    /\ UNCHANGED <<kind, table, pc, now, nextId, aws>>

\* One load of a project file, with any of the overrides given, given as the
\* empty string, or left out.
ConfigNext ==
    /\ lastOp.op = "init"
    /\ \E config \in Configs, namespace \in {None, "", "uk.ac.wellcome"},
          role_arn \in {None, "", "arn:aws:iam::111:role/r"},
          region_name \in {None, "", "eu-west-1"}, account_id \in {None, ""} \cup AccountIds :
           PrepareConfig(config, namespace, role_arn, region_name, account_id)

SpecConfig == ConfigInit /\ [][ConfigNext]_vars

\* ------------------------------------------------------------------ the repository of an image
\* ecr._get_repository_name: `if namespace:` is false for None and for "".
get_repository_name(namespace, image_id) ==
    IF namespace = None \/ namespace = "" THEN image_id
    ELSE namespace \o "/" \o image_id

\* The ids of config["image_repositories"] in the order of the list, which
\* is the order the dict of Project.image_repositories iterates in.
repository_ids(config) ==
    [i \in 1..Len(config.image_repositories) |-> config.image_repositories[i].id]

\* Project.image_repositories: the dict of a repository has repository_name,
\* formed with the repository's own namespace or else the project's, and
\* account_id, region_name, role_arn, services; it has no key "namespace".
image_repositories(config) ==
    [id \in Range(repository_ids(config)) |->
        LET repo == config.image_repositories[
                        CHOOSE i \in 1..Len(config.image_repositories) :
                            config.image_repositories[i].id = id]
            namespace == IF repo.namespace = Absent THEN config.namespace
                         ELSE repo.namespace
        IN [account_id |-> config.account_id,
            repository_name |-> namespace \o "/" \o id]]

\* ecr.get_ref_tags_for_repositories, the repository it passes to
\* describe_images: repo_details.get("namespace", None) and repo_id.
ref_tags_repository_name(repo_details, repo_id) ==
    LET namespace == IF "namespace" \in DOMAIN repo_details
                     THEN repo_details.namespace ELSE None
    IN get_repository_name(namespace, repo_id)

\* Project._tag_ecr_image and Ecr.tag_image, the repository passed to
\* batch_get_image and put_image: namespace=self.namespace and image_id.
tag_image_repository_name(config, image_id) ==
    get_repository_name(config.namespace, image_id)

\* A request to the registry, as the ECR client sends it.
Request(op, image_id, repositoryName, imageTag) ==
    [op |-> op, image_id |-> image_id, repositoryName |-> repositoryName,
     imageTag |-> imageTag]

\* The request of get_ref_tags_for_image.
describe_images(image_id, repository_name, tag) ==
    Request("describe_images", image_id, repository_name, tag)

\* The first request of Ecr.tag_image (get_image_manifests_for_tag).
batch_get_image(image_id, repository_name, tag) ==
    Request("batch_get_image", image_id, repository_name, tag)

\* The second request of Ecr.tag_image.
put_image(image_id, repository_name, new_tag) ==
    Request("put_image", image_id, repository_name, new_tag)

\* get_ref_tags_for_image against the registry of the account, a mapping
\* repository name -> repository: describe_images of a repository that does
\* not exist answers RepositoryNotFoundException, a ClientError that is
\* raised again.
ref_tags_in(registry, repository_name, tag) ==
    IF repository_name \notin DOMAIN registry
    THEN [err |-> "ClientError", ref_tags |-> {}]
    ELSE get_ref_tags_for_image(registry[repository_name], tag, "none")

\* The loop of ecr.get_ref_tags_for_repositories over
\* image_repositories.items(), from position i on: one describe_images per
\* repository until one raises something else than NoSuchImageError, which
\* ends the loop and the call.  requests are the requests sent, in order.
RECURSIVE ref_tags_for_repositories(_, _, _, _, _, _)
ref_tags_for_repositories(config, registry, tag, i, result, requests) ==
    IF i > Len(repository_ids(config))
    THEN [err |-> "none", result |-> result, requests |-> requests]
    ELSE LET repo_id == repository_ids(config)[i]
             repository_name ==
                 ref_tags_repository_name(image_repositories(config)[repo_id], repo_id)
             sent == Append(requests, describe_images(repo_id, repository_name, tag))
             ref_uri == ref_tags_in(registry, repository_name, tag)
         IN IF ref_uri.err \notin {"none", "NoSuchImageError"}
            THEN [err |-> ref_uri.err, result |-> result, requests |-> sent]
            ELSE ref_tags_for_repositories(config, registry, tag, i + 1,
                     (repo_id :> ref_uri.ref_tags) @@ result, sent)

\* The loop of Project.get_images over ref_tags_resp: ref_tags.pop() is any
\* one of the ref tags, None for an empty set.  Every dict the call can
\* return.
popped(ref_tags_resp) ==
    {result \in [DOMAIN ref_tags_resp -> ImageTags \cup {NoImage}] :
        \A image_id \in DOMAIN ref_tags_resp :
            IF ref_tags_resp[image_id] = {} THEN result[image_id] = NoImage
            ELSE result[image_id] \in ref_tags_resp[image_id]}

\* The image names deploy passes to _tag_ecr_image: the values of
\* release["images"], a ref tag, a URI that ends with one, or None.
ImageNames == {"ref.1", "111.dkr.ecr.eu-west-1.amazonaws.com/x:ref.1", NoImage}

\* image_name.split(":")[-1]
old_tag_of(image_name) ==
    IF image_name = "111.dkr.ecr.eu-west-1.amazonaws.com/x:ref.1" THEN "ref.1"
    ELSE image_name

\* Project._tag_ecr_image(environment_id, image_id, image_name) with
\* Ecr.tag_image: an image_name of None raises AttributeError at split;
\* batch_get_image on a repository that does not exist raises ClientError
\* (RepositoryNotFoundException); without a manifest for the old tag
\* tag_image raises RuntimeError; only then put_image is sent.  The ECR
\* client is made for the account, region and role of the repository, which
\* do not enter the repository name.
_tag_ecr_image(config, registry, environment_id, image_id, image_name) ==
    LET old_tag == old_tag_of(image_name)
        new_tag == "env." \o environment_id
        repository_name == tag_image_repository_name(config, image_id)
        get == batch_get_image(image_id, repository_name, old_tag)
        put == put_image(image_id, repository_name, new_tag)
        raised(err, requests) ==
            [err |-> err, status |-> "none", registry |-> registry, requests |-> requests]
    IN IF image_name = NoImage THEN raised("AttributeError", <<>>)
       ELSE IF repository_name \notin DOMAIN registry THEN raised("ClientError", <<get>>)
       ELSE LET out == Ecr_tag_image(registry[repository_name], old_tag, new_tag, "none")
            IN IF out.err # "none" THEN raised(out.err, <<get>>)
               ELSE [err |-> "none", status |-> out.status,
                     registry |-> [registry EXCEPT ![repository_name] = out.repository],
                     requests |-> <<get, put>>]

\* The project files: a namespace of the project or none, and the
\* repositories a and b, in either order, each with a namespace of its own
\* or none.
RepoConfigs ==
    {[namespace |-> override_or_default(value, override, DEFAULT_ECR_NAMESPACE),
      account_id |-> "111",
      image_repositories |-> [i \in 1..2 |->
          [id |-> ids[i], namespace |-> IF ids[i] = "a" THEN na ELSE nb]]] :
        value \in {Absent, "", "edu.self"}, override \in {None, "org.example"},
        na \in {Absent, "org.wellcome"}, nb \in {Absent, "org.wellcome"},
        ids \in {<<"a", "b">>, <<"b", "a">>}}

\* What a repository of the account holds: an image published under latest
\* and a ref tag, a labelled image without ref tag, or no image.
RepoContents ==
    {("latest" :> "i1" @@ "ref.1" :> "i1") @@ Untagged,
     ("latest" :> "i1") @@ Untagged,
     Untagged}

\* The registries of an account for a project file.  The repositories that
\* exist are those of the names image_repositories gives (repository_name),
\* those of the names get_ref_tags_for_repositories asks for, those of the
\* names _tag_ecr_image asks for, or all of these; a repository of image id
\* a holds ca, one of b holds cb.
Registries(config, ca, cb) ==
    LET named(names) ==
            [n \in {names[id] : id \in Repos} |->
                IF \E id \in Repos : names[id] = n /\ id = "a" THEN ca ELSE cb]
        configured ==
            named([id \in Repos |-> image_repositories(config)[id].repository_name])
        bare ==
            named([id \in Repos |->
                      ref_tags_repository_name(image_repositories(config)[id], id)])
        namespaced == named([id \in Repos |-> tag_image_repository_name(config, id)])
    IN {configured, bare, namespaced, configured @@ bare @@ namespaced}

\* aws.project is the prepared config of the project, aws.registry the
\* repositories of the account by name, aws.received the requests the
\* registry has received.
RepoInit ==
    /\ kind = "dynamo"
    /\ table = << >>
    /\ pc = [p \in Procs |-> Idle]
    /\ now = 1
    /\ nextId = 1
    /\ lastOp = NoOp
    /\ \E config \in RepoConfigs, ca \in RepoContents, cb \in RepoContents :
           \E registry \in Registries(config, ca, cb) :
               aws = [project |-> config, registry |-> registry, received |-> {}]
    /\ calls = NoCalls

\* Project.get_images(from_label).
GetImages(from_label) ==
    LET out == ref_tags_for_repositories(aws.project, aws.registry, from_label, 1,
                   << >>, <<>>)
    IN /\ \E result \in IF out.err = "none" THEN popped(out.result) ELSE {<< >>} :
              calls' = [op |-> "get_images", args |-> <<from_label>>, err |-> out.err,
                        val |-> result, requests |-> out.requests]
       /\ aws' = [aws EXCEPT !.received = @ \cup Range(out.requests)]
       /\ lastOp' = Op("get_images", "p1", 0, NoDeployment, NoRelease, out.err)
       /\ UNCHANGED <<kind, table, pc, now, nextId>>

\* Project._tag_ecr_image(environment_id, image_id, image_name).
TagEcrImage(environment_id, image_id, image_name) ==
    LET out == _tag_ecr_image(aws.project, aws.registry, environment_id, image_id,
                   image_name)
    IN /\ calls' = [op |-> "_tag_ecr_image",
                    args |-> <<environment_id, image_id, image_name>>, err |-> out.err,
                    val |-> out.status, requests |-> out.requests]
       /\ aws' = [aws EXCEPT !.registry = out.registry,
                             !.received = @ \cup Range(out.requests)]
       /\ lastOp' = Op("_tag_ecr_image", "p1", 0, NoDeployment, NoRelease, out.err)
       /\ UNCHANGED <<kind, table, pc, now, nextId>>

RepoNext ==
    \/ \E from_label \in {"latest", "env.prod"} : GetImages(from_label)
    \/ \E image_id \in Repos, image_name \in ImageNames :
           TagEcrImage("prod", image_id, image_name)

SpecRepo == RepoInit /\ [][RepoNext]_vars

\* ------------------------------------------------------------------ convergence of a rollout
\* What ECS reports for a service: the value of its deployment:label tag
\* (Absent for a service that was never tagged), its desiredCount, and the
\* tasks list_service_tasks returns, each with the value of its
\* deployment:label tag and its lastStatus.
Task(label, lastStatus) == [label |-> label, lastStatus |-> lastStatus]

Running(label, desiredCount, tasks) ==
    [label |-> label, desiredCount |-> desiredCount, tasks |-> tasks]

\* The states of one service during a rollout of release r1 after r0.
ServiceStates ==
    {Running("r1", 1, <<Task("r1", "RUNNING")>>),
     Running("r1", 1, <<Task("r1", "PENDING")>>),
     Running("r1", 1, <<Task("r0", "RUNNING")>>),
     Running("r1", 2, <<Task("r0", "STOPPED"), Task("r1", "PENDING")>>),
     Running("r1", 2, <<Task("r1", "RUNNING")>>),
     Running("r1", 0, <<>>),
     Running(Absent, 1, <<Task("r1", "RUNNING")>>)}

\* `for task in tasks` of is_release_deployed, from task i on.  task_arn
\* tells whether the local variable task_arn is bound: it is assigned only in
\* the branch for a wrong deployment label, and read in the branch for a
\* wrong status.
RECURSIVE check_tasks(_, _, _, _, _)
check_tasks(tasks, i, service_deployment_label, is_deployed, task_arn) ==
    IF i > Len(tasks)
    THEN [err |-> "none", is_deployed |-> is_deployed, task_arn |-> task_arn]
    ELSE LET wrong_label == tasks[i].label # service_deployment_label
             bound == task_arn \/ wrong_label
         IN IF tasks[i].lastStatus # "RUNNING"
            THEN IF ~bound
                 THEN [err |-> "UnboundLocalError", is_deployed |-> is_deployed /\ ~wrong_label,
                       task_arn |-> bound]
                 ELSE check_tasks(tasks, i + 1, service_deployment_label, FALSE, bound)
            ELSE check_tasks(tasks, i + 1, service_deployment_label,
                             is_deployed /\ ~wrong_label, bound)

\* `for service in services` of is_release_deployed over the matched services
\* in the order of sorted(ecs_services.items()), from service i on;
\* after_tasks is the rest of the loop body once the tasks of service i have
\* been checked.
RECURSIVE check_services(_, _, _, _, _)
RECURSIVE after_tasks(_, _, _, _)
check_services(arns, i, running, is_deployed, task_arn) ==
    IF i > Len(arns)
    THEN [err |-> "none", val |-> is_deployed]
    ELSE IF running[arns[i]].label = Absent
    THEN [err |-> "KeyError", val |-> FALSE]
    ELSE after_tasks(check_tasks(running[arns[i]].tasks, 1, running[arns[i]].label,
                                 is_deployed, task_arn),
                     arns, i, running)

after_tasks(checked, arns, i, running) ==
    IF checked.err # "none"
    THEN [err |-> checked.err, val |-> FALSE]
    ELSE check_services(arns, i + 1, running,
             /\ checked.is_deployed
             /\ ~(Len(running[arns[i]].tasks) < running[arns[i]].desiredCount),
             checked.task_arn)

\* The loops of is_release_deployed over ecs_services, the outcome of
\* get_ecs_services: its exception propagates.
check_ecs_services(ecs_services, its, running) ==
    IF ecs_services.err # "none"
    THEN [err |-> ecs_services.err, val |-> FALSE]
    ELSE check_services(Flatten([i \in 1..Len(its) |-> its[i].value]), 1, running,
                        TRUE, FALSE)

\* Project.is_release_deployed(release, environment_id): [err, val].
is_release_deployed(a, image_ids, environment_id) ==
    check_ecs_services(
        get_ecs_services(a.fleet, image_ids, environment_id),
        sorted(items(get_ecs_services(a.fleet, image_ids, environment_id).matched_services,
                     CHOOSE order \in Orders : Range(order) = image_ids)),
        a.running)

\* A poll recorded by the loop, at `elapsed` seconds after its start.
polled(w, poll, elapsed) ==
    [w EXCEPT !.polls = Append(@, [at |-> elapsed, err |-> poll.err, val |-> poll.val])]

\* A loop that polls first and tests the timeout after a failed poll.
wait_poll_first(w, poll, elapsed) ==
    IF poll.err # "none"
    THEN [polled(w, poll, elapsed) EXCEPT !.st = "done", !.err = poll.err, !.val = FALSE]
    ELSE IF poll.val
    THEN [polled(w, poll, elapsed) EXCEPT !.st = "done", !.err = "none", !.val = TRUE]
    ELSE IF elapsed > w.timeout_seconds
    THEN [polled(w, poll, elapsed) EXCEPT !.st = "done", !.err = "none", !.val = FALSE]
    ELSE [polled(w, poll, elapsed) EXCEPT !.st = "sleeping"]

\* wait_for_deployment(release, environment_id, timeout_seconds,
\* poll_interval_seconds), one turn of its loop for a caller that has waited
\* `elapsed` seconds: timed out once the elapsed time exceeds
\* timeout_seconds, otherwise a fresh poll (poll is what is_release_deployed
\* answers now), which ends the wait when it passes or raises and is followed
\* by a sleep when it fails.
wait_for_deployment(w, poll, elapsed) ==
    IF elapsed > w.timeout_seconds
    THEN [w EXCEPT !.st = "done", !.err = "none", !.val = FALSE]
    ELSE IF poll.err # "none"
    THEN [polled(w, poll, elapsed) EXCEPT !.st = "done", !.err = poll.err, !.val = FALSE]
    ELSE IF poll.val
    THEN [polled(w, poll, elapsed) EXCEPT !.st = "done", !.err = "none", !.val = TRUE]
    ELSE [polled(w, poll, elapsed) EXCEPT !.st = "sleeping"]

\* The environments an operator waits for: one with services of both images,
\* and one in which no service is matched.
WaitEnvs == {"prod", "staging"}

\* ECS as a poll finds it: deployed[environment_id] is what
\* is_release_deployed answers for the environment in this state of the
\* services and their tasks.  It is derived again whenever they change.
Observed(a) ==
    [a EXCEPT !.deployed = [e \in WaitEnvs |-> is_release_deployed(a, Repos, e)]]

\* The services of FleetUnique, each in some state of the rollout.
PollInit ==
    /\ kind = "dynamo"
    /\ table = put_release(<< >>, EarlierRelease)
    /\ pc = [p \in Procs |-> Idle]
    /\ now = 1
    /\ nextId = 2
    /\ lastOp = NoOp
    /\ calls = NoCalls
    /\ \E s1 \in ServiceStates, s2 \in ServiceStates :
           aws = Observed(
                     [exists |-> TRUE, tags |-> NoTags, fleet |-> FleetUnique,
                      registry |-> Provisioned.registry, deployed |-> << >>,
                      running |-> [arn \in {s.serviceArn : s \in FleetUnique} |->
                                      IF arn = "s1-prod" THEN s1
                                      ELSE IF arn = "s2-prod" THEN s2
                                      ELSE Running("r1", 1, <<Task("r1", "RUNNING")>>)]])

\* The operator starts to wait for the rollout in an environment.
WaitStart(environment_id, timeout_seconds, poll_interval_seconds) ==
    /\ pc["p1"].st = "idle"
    /\ pc' = [pc EXCEPT !["p1"] =
                 [st |-> "polling", environment |-> environment_id, started |-> now,
                  timeout_seconds |-> timeout_seconds,
                  poll_interval_seconds |-> poll_interval_seconds,
                  polls |-> <<>>, err |-> "none", val |-> FALSE]]
    /\ lastOp' = Op("wait_for_deployment", "p1", 0, NoDeployment, NoRelease, "started")
    /\ UNCHANGED <<kind, table, now, nextId, aws, calls>>

\* The loop is in state w after a turn; a poll it made is the last call of
\* is_release_deployed.
Turned(w) ==
    /\ pc' = [pc EXCEPT !["p1"] = w]
    /\ calls' = IF Len(w.polls) > Len(pc["p1"].polls)
                THEN [op |-> "is_release_deployed", environment |-> w.environment,
                      err |-> w.polls[Len(w.polls)].err,
                      val |-> w.polls[Len(w.polls)].val]
                ELSE calls
    /\ lastOp' = Op("wait_for_deployment", "p1", 0, NoDeployment, NoRelease, w.st)
    /\ UNCHANGED <<kind, table, now, nextId, aws>>

\* One turn of the loop: the timeout test and the poll.
WaitPoll ==
    /\ pc["p1"].st = "polling"
    /\ Turned(wait_for_deployment(pc["p1"], aws.deployed[pc["p1"].environment],
                                  now - pc["p1"].started))

\* time.sleep(poll_interval_seconds) between two polls.
WaitSleep ==
    /\ pc["p1"].st = "sleeping"
    /\ now' = now + pc["p1"].poll_interval_seconds
    /\ pc' = [pc EXCEPT !["p1"].st = "polling"]
    /\ lastOp' = Op("sleep", "p1", 0, NoDeployment, NoRelease, "ok")
    /\ UNCHANGED <<kind, table, nextId, aws, calls>>

\* ECS moves a service on while the operator waits: its tasks change, its
\* tags and its desiredCount do not.
Rollout(arn, state) ==
    /\ pc["p1"].st \in {"polling", "sleeping"}
    /\ aws.running[arn] # state
    /\ aws.running[arn].label = state.label
    /\ aws.running[arn].desiredCount = state.desiredCount
    /\ aws' = Observed([aws EXCEPT !.running[arn] = state])
    /\ lastOp' = Op("ecs", "p1", 0, NoDeployment, NoRelease, arn)
    /\ UNCHANGED <<kind, table, pc, now, nextId, calls>>

PollNext ==
    \/ \E environment_id \in WaitEnvs, timeout_seconds \in 0..MaxTime,
          poll_interval_seconds \in 1..2 :
           WaitStart(environment_id, timeout_seconds, poll_interval_seconds)
    \/ WaitPoll
    \/ WaitSleep
    \/ \E state \in ServiceStates : Rollout("s1-prod", state)

SpecPoll == PollInit /\ [][PollNext]_vars

\* The loop is scheduled until it ends: a turn or a sleep that is due is run.
SpecWait == SpecPoll /\ WF_vars(WaitPoll) /\ WF_vars(WaitSleep)

\* ------------------------------------------------------------------ claims on the store API
\* res holds exactly the k newest elements of S, newest first (S has distinct
\* date_created values).
NewestFirst(res, S, k) ==
    /\ Len(res) = Min(k, Cardinality(S))
    /\ \A i \in 1..Len(res) : res[i] \in S
    /\ \A i, j \in 1..Len(res) : i < j => res[i].date_created > res[j].date_created
    /\ \A s \in S \ Range(res) : \A i \in 1..Len(res) : s.date_created < res[i].date_created

EnvAndDate(d) == [environment |-> d.environment, date_created |-> d.date_created]

EnvAndDates(ds) == [i \in 1..Len(ds) |-> EnvAndDate(ds[i])]

\* The deployments of every stored release, those of `environment` when given.
Qualifying(t, environment) ==
    {EnvAndDate(d) : d \in {e \in UNION {Range(t[x].deployments) : x \in DOMAIN t} :
                              environment = NoEnv \/ e.environment = environment}}

EnvArgs == Envs \cup {NoEnv}

\* C1: a completed add_deployment(release_id=R, deployment=d) leaves R's
\* deployments equal to the previous list with d appended (one longer, earlier
\* entries unchanged) and R's last_date_deployed equal to d.date_created, in
\* the memory store and in the DynamoDB store.
C1_AddDeploymentAppends ==
    [][(lastOp'.op = "add_deployment" /\ lastOp'.res = "ok") =>
          LET R == lastOp'.rid
              d == lastOp'.d
          IN /\ R \in DOMAIN table /\ R \in DOMAIN table'
             /\ table'[R].deployments = Append(table[R].deployments, d)
             /\ Len(table'[R].deployments) = Len(table[R].deployments) + 1
             /\ IsPrefix(table[R].deployments, table'[R].deployments)
             /\ table'[R].last_date_deployed = d.date_created]_vars

\* C1 witness: the DynamoDB store after an add_deployment that appended a
\* deployment older than one already in the list.
C1_Witness ==
    /\ kind = "dynamo"
    /\ lastOp.op = "add_deployment" /\ lastOp.res = "ok"
    /\ lastOp.rid \in DOMAIN table
    /\ Len(table[lastOp.rid].deployments) = 2
    /\ table[lastOp.rid].deployments[2] = lastOp.d
    /\ table[lastOp.rid].deployments[1].date_created > lastOp.d.date_created
    /\ table[lastOp.rid].last_date_deployed = lastOp.d.date_created

\* C5: get_recent_deployments(environment=e, limit=k) returns the k newest
\* deployments of all stored releases, restricted to environment e when e is
\* given, newest first; limit=0 returns the empty list.
C5_RecentDeployments ==
    \A e \in EnvArgs, k \in Limits, pageSize \in PageSizes :
        LET res == get_recent_deployments(kind, table, e, k, pageSize)
        IN /\ NewestFirst(EnvAndDates(res), Qualifying(table, e), k)
           /\ (k = 0 => res = <<>>)

\* C6: the result of DynamoReleaseStore.get_recent_deployments is the k newest
\* matching deployments whatever the page size of the deployment_gsi query,
\* and so the same for every page size.
C6_PagingIndependent ==
    kind = "dynamo" =>
        \A e \in EnvArgs, k \in Limits, pageSize \in PageSizes :
            LET res == Dynamo_get_recent_deployments(table, e, k, pageSize)
            IN /\ res = Dynamo_get_recent_deployments(table, e, k, 1)
               /\ NewestFirst(EnvAndDates(res), Qualifying(table, e), k)

\* C8: get_recent_releases(limit=k) returns exactly the k stored releases
\* with the largest date_created (all of them when fewer are stored), newest
\* first, in both stores and whatever the order of the puts.
C8_RecentReleases ==
    \A k \in Limits, pageSize \in PageSizes :
        LET res == get_recent_releases(kind, table, k, pageSize)
        IN /\ res.err = "none"
           /\ NewestFirst(res.val, {table[x] : x \in DOMAIN table}, k)

\* C9: get_most_recent_release() returns get_recent_releases(limit=1)[0], the
\* stored release of largest date_created, when a release is stored, and fails
\* with ReleaseNotFoundError ("There are no releases yet") when none is.
C9_MostRecentRelease ==
    LET res == get_most_recent_release(kind, table)
    IN IF DOMAIN table = {}
       THEN /\ ~res.ok
            /\ res.err = "ReleaseNotFoundError"
            /\ res.msg = "There are no releases yet"
       ELSE /\ res.ok
            /\ \A pageSize \in PageSizes :
                   res.val = get_recent_releases(kind, table, 1, pageSize).val[1]
            /\ res.val \in {table[x] : x \in DOMAIN table}
            /\ \A x \in DOMAIN table : table[x].date_created <= res.val.date_created

\* C9 witness: two releases are stored and the most recent one is not the one
\* put last.
C9_Witness ==
    /\ Cardinality(DOMAIN table) = 2
    /\ lastOp.op = "put_release"
    /\ get_most_recent_release(kind, table).ok
    /\ get_most_recent_release(kind, table).val.release_id # lastOp.rid

\* C10: put_release(r) makes get_release(r.release_id) return r, and no
\* operation on another release_id changes what get_release returns for it.
C10_PutThenGet ==
    [][/\ (lastOp'.op = "put_release" =>
              get_release(kind, table', lastOp'.rid) = Ok(lastOp'.r))
       /\ \A x \in DOMAIN table :
              x # lastOp'.rid => get_release(kind, table', x) = get_release(kind, table, x)]_vars

\* C10 witness: release 1 is still the release that was put, after a put and
\* an add_deployment on release 2.
C10_Witness ==
    /\ DOMAIN table = {1, 2}
    /\ lastOp.op = "add_deployment" /\ lastOp.res = "ok" /\ lastOp.rid = 2
    /\ get_release(kind, table, 1) =
           Ok(_create_release(1, "put", ImagesV1, table[1].date_created, "user"))


\* ------------------------------------------------------------------ claims on concurrent callers
Quiescent == \A p \in Procs : pc[p].st \in {"idle", "created"}

MaxDateCreated(ds) ==
    CHOOSE m \in {ds[i].date_created : i \in 1..Len(ds)} :
        \A i \in 1..Len(ds) : ds[i].date_created <= m

\* C3: whenever no add_deployment call is between its two writes, every
\* release with a non-empty deployments list has last_date_deployed equal to
\* the maximum date_created of its deployments, and every release without
\* deployments has no last_date_deployed.
C3_LastDateDeployedIsMax ==
    Quiescent =>
        \A x \in DOMAIN table :
            IF table[x].deployments = <<>>
            THEN table[x].last_date_deployed = NoDate
            ELSE table[x].last_date_deployed = MaxDateCreated(table[x].deployments)

\* C4: when calls of DynamoReleaseStore.add_deployment on one release
\* interleave their update_item requests, no request removes a deployment
\* that is stored, and the deployment of a call that has completed is in the
\* release's list: after both calls both deployments are there.
C4_ConcurrentAppendsKept ==
    [][/\ \A x \in DOMAIN table :
              /\ x \in DOMAIN table'
              /\ Range(table[x].deployments) \subseteq Range(table'[x].deployments)
       /\ \A p \in Procs :
              (pc[p].st = "appended" /\ pc'[p].st = "idle") =>
                  /\ pc[p].d \in Range(table'[pc[p].rid].deployments)
                  /\ \A q \in Procs :
                         (pc'[q].st \in {"appended"} /\ pc'[q].rid = pc[p].rid) =>
                             pc'[q].d \in Range(table'[pc[p].rid].deployments)]_vars

\* C4 witness: both processes have completed add_deployment on release 1, both
\* deployments are in its list, and last_date_deployed is that of the first
\* entry, which only overlapping calls produce.
C4_Witness ==
    /\ kind = "dynamo"
    /\ \A p \in Procs : pc[p].st = "idle"
    /\ lastOp.op = "add_deployment"
    /\ 1 \in DOMAIN table
    /\ Len(table[1].deployments) = 2
    /\ table[1].deployments[1].requested_by # table[1].deployments[2].requested_by
    /\ table[1].last_date_deployed = table[1].deployments[1].date_created

\* ------------------------------------------------------------------ claims on the project
\* C2: no step of prepare, update, deploy or add_deployment removes a stored
\* release, and the deployments list of every stored release before the step
\* is a prefix of its list after the step.
C2_DeploymentsOnlyGrow ==
    [][\A x \in DOMAIN table :
           /\ x \in DOMAIN table'
           /\ IsPrefix(table[x].deployments, table'[x].deployments)]_vars

\* C2 witness: a release holds two deployments by different callers, the
\* second appended by the deploy that completed last.
C2_Witness ==
    /\ lastOp.op = "add_deployment" /\ lastOp.res = "ok"
    /\ lastOp.rid \in DOMAIN table
    /\ Len(table[lastOp.rid].deployments) = 2
    /\ table[lastOp.rid].deployments[2] = lastOp.d
    /\ table[lastOp.rid].deployments[1].requested_by # lastOp.d.requested_by

\* C7: no step of prepare, update, deploy or add_deployment changes the images
\* that get_release returns for a release that is stored.
C7_ImagesNeverChange ==
    [][\A x \in DOMAIN table :
           /\ get_release(kind, table', x).ok
           /\ get_release(kind, table', x).val.images =
                  get_release(kind, table, x).val.images]_vars

\* C7 witness: release 1 was deployed, then updated into release 2 with other
\* images, and still has the images it was stored with.
C7_Witness ==
    /\ lastOp.op = "update" /\ lastOp.res = "ok" /\ lastOp.rid = 2
    /\ DOMAIN table = {1, 2}
    /\ table[1].deployments # <<>>
    /\ table[1].images = ImagesV1
    /\ table[2].images # ImagesV1

\* ------------------------------------------------------------------ claims on the store lifecycle
\* C11: get_release(release_id) of a release_id that is not stored fails with
\* ReleaseNotFoundError(release_id), whatever else is stored, and a call that
\* ends so leaves the stored rows as they were.
C11_GetMissingRelease ==
    [][/\ \A x \in RelIds \ DOMAIN table :
              LET got == get_release(kind, table, x)
              IN /\ ~got.ok
                 /\ got.err = "ReleaseNotFoundError"
                 /\ got.val = x
       /\ (lastOp'.op = "get_release" /\ lastOp'.rid \notin DOMAIN table) =>
              /\ lastOp'.res = "ReleaseNotFoundError"
              /\ lastOp'.r = NoRelease
              /\ table' = table]_vars

\* C11 witness: get_release of an id that is not stored has just failed while
\* another release, with a deployment, is stored.
C11_Witness ==
    /\ lastOp.op = "get_release" /\ lastOp.res = "ReleaseNotFoundError"
    /\ lastOp.rid \notin DOMAIN table
    /\ \E x \in DOMAIN table : table[x].deployments # <<>>

\* C12: initialise() creates the table only when it does not exist; on a
\* provisioned store it changes nothing and keeps every stored release; the
\* only error it ends with is the one the probe of the table raised, and
\* then nothing is changed either.
C12_InitialiseIdempotent ==
    [][lastOp'.op = "initialise" =>
          /\ table' = table
          /\ aws.exists => aws' = aws
          /\ lastOp'.res = "ok" => aws'.exists
          /\ lastOp'.res # "ok" => (lastOp'.res = "ParamValidationError" /\ aws' = aws)
          /\ aws'.tags = aws.tags]_vars

\* C12 witness: initialise() has returned on a store that holds a release
\* with a deployment.
C12_Witness ==
    /\ kind = "dynamo"
    /\ lastOp.op = "initialise" /\ lastOp.res = "ok"
    /\ \E x \in DOMAIN table : table[x].deployments # <<>>

\* ------------------------------------------------------------------ claims on deploy
\* Positions in the log of a deploy of the redeploys of a service, and of the
\* retags of an image id.
Redeploys(log, arn) ==
    {i \in 1..Len(log) : log[i].op = "redeploy_service" /\ log[i].arn = arn}

Retags(log, image_id) ==
    {i \in 1..Len(log) : log[i].op = "tag_image" /\ log[i].image_id = image_id}

Arns == {s.serviceArn : s \in FleetAmbiguous}

\* The services matched under an image id in the last deploy.
Matched(image_id) ==
    Range(get_ecs_services(aws.fleet, Repos, calls.environment).matched_services[image_id])

Completed == calls.res = "ok"

\* The retag of the image id in the last deploy reported a change.
Changed(image_id) ==
    \E i \in Retags(calls.log, image_id) : calls.log[i].status = "success"

\* C13: within one deploy() call, redeploy_service is invoked at most once
\* for any one ECS service, also when the service is matched under several
\* image ids whose retags all report a change.
C13_RedeployAtMostOnce ==
    \A arn \in Arns : Cardinality(Redeploys(calls.log, arn)) <= 1

\* A completed deploy in which both image ids were retagged with a change and
\* one service is matched under both.
C13_Witness ==
    /\ Completed
    /\ \A image_id \in Repos : Changed(image_id)
    /\ \E arn \in Arns : /\ \A image_id \in Repos : arn \in Matched(image_id)
                         /\ Cardinality(Redeploys(calls.log, arn)) = 1

\* The image ids under which the last deploy matched the service.
Keys(arn) == {image_id \in Repos : arn \in Matched(image_id)}

\* The services that the last deploy matched under two image ids or more.
Shared == {arn \in Arns : Cardinality(Keys(arn)) >= 2}

\* The last deploy found its release and its services and entered its loop.
Resolved == calls.release_id # 0

\* C14 as stated: whenever two image ids resolve to the same ECS service in a
\* deploy() call, redeploy_service is invoked exactly once for that service
\* during that call.
C14_Original ==
    Resolved => \A arn \in Shared : Cardinality(Redeploys(calls.log, arn)) = 1

\* C14: if two image ids resolve to the same ECS service in a deploy() call,
\* redeploy_service is invoked at most once for that service during the
\* call, and only on behalf of an image id that resolves to the service and
\* whose retag reported a change; when the call returns it has been invoked
\* exactly once if the retag of at least one image id that resolves to the
\* service reported a change, and not at all if the retag of every such
\* image id reported 'noop'.
C14_RedeployExactlyOnce ==
    Resolved =>
        \A arn \in Shared :
            /\ Cardinality(Redeploys(calls.log, arn)) <= 1
            /\ \A i \in Redeploys(calls.log, arn) :
                   /\ calls.log[i].image_id \in Keys(arn)
                   /\ Changed(calls.log[i].image_id)
            /\ Completed =>
                   IF \E image_id \in Keys(arn) : Changed(image_id)
                   THEN Cardinality(Redeploys(calls.log, arn)) = 1
                   ELSE /\ Redeploys(calls.log, arn) = {}
                        /\ \A image_id \in Keys(arn) :
                               \E i \in Retags(calls.log, image_id) :
                                   calls.log[i].status = "noop"

\* A completed deploy in which one image id was retagged with a change and the
\* other was not, and the service they share was redeployed once.
C14_Witness ==
    /\ Completed
    /\ \E image_id \in Repos : Changed(image_id)
    /\ \E image_id \in Repos : ~Changed(image_id)
    /\ \E arn \in Shared : Cardinality(Redeploys(calls.log, arn)) = 1

\* The retag of the image id in the last deploy reported 'noop'.
Noop(image_id) ==
    \E i \in Retags(calls.log, image_id) : calls.log[i].status = "noop"

\* Positions in the log of the redeploys made on behalf of an image id.
RedeploysFor(log, image_id) ==
    {i \in 1..Len(log) : log[i].op = "redeploy_service" /\ log[i].image_id = image_id}

\* C15: in deploy(), an image id whose retag reports 'noop' has no redeploy
\* triggered on its behalf and its recorded ecs_deployments is the empty list;
\* a redeploy is triggered for an image id only when its retag status is not
\* 'noop'.
C15_NoopSkipsRedeploy ==
    /\ \A image_id \in Repos :
           Noop(image_id) =>
               /\ RedeploysFor(calls.log, image_id) = {}
               /\ Completed => calls.returned.details[image_id].ecs_deployments = <<>>
    /\ \A i \in 1..Len(calls.log) :
           calls.log[i].op = "redeploy_service" => Changed(calls.log[i].image_id)

\* A completed deploy in which the retag of a reported 'noop' although a has
\* matched services, and b was retagged with a change and redeployed.
C15_Witness ==
    /\ Completed
    /\ Noop("a")
    /\ Matched("a") # {}
    /\ calls.returned.details["a"].ecs_deployments = <<>>
    /\ Changed("b")
    /\ RedeploysFor(calls.log, "b") # {}

\* C16: deploy() of a stored release with an environment_id that the project
\* does not declare fails with an error that names the requested id and the
\* full set of declared ids, and retags nothing, redeploys nothing and appends
\* no deployment.
C16_UnknownEnvironment ==
    [][(/\ calls' # calls
        /\ calls'.rid \in DOMAIN table
        /\ calls'.environment \notin Envs)
       => /\ calls'.res = "ValueError"
          /\ calls'.got = calls'.environment
          /\ calls'.expected = Envs
          /\ calls'.log = <<>>
          /\ aws' = aws
          /\ table' = table]_vars

\* What deploy raises when the release does not load, the environment is not
\* declared or a service match is ambiguous.
LookupErrors == {"ReleaseNotFoundError", "ValueError", "MultipleMatchingServicesError"}

\* C17: in deploy(), loading the release, validating the environment and
\* computing the matched services come before the first mutating call: when
\* one of them fails, no image is retagged, no service is redeployed and no
\* deployment is appended.
C17_LookupsBeforeMutation ==
    [][(calls' # calls /\ calls'.res \in LookupErrors)
       => /\ calls'.log = <<>>
          /\ aws' = aws
          /\ table' = table]_vars

\* A deploy to a declared environment failed on an ambiguous service match,
\* after an earlier deploy had retagged for another environment.
C17_Witness ==
    /\ lastOp.op = "deploy"
    /\ calls.res = "MultipleMatchingServicesError"
    /\ calls.environment = "stage"
    /\ calls.log = <<>>
    /\ aws.tags["a"]["prod"] # NoImage
    /\ aws.tags["a"]["stage"] = NoImage

\* C18: deploy() retags the image ids in ascending lexicographic order
\* whatever the insertion order of release['images'], and the redeploys of an
\* image id come after its own retag and before the retag of the next one.
C18_SortedRetags ==
    LET log == calls.log
    IN /\ \A i, j \in 1..Len(log) :
              (i < j /\ log[i].op = "tag_image" /\ log[j].op = "tag_image")
                  => ord(log[i].image_id) < ord(log[j].image_id)
       /\ \A i \in 1..Len(log) :
              log[i].op = "redeploy_service"
                  => \E j \in 1..(i - 1) :
                         /\ log[j].op = "tag_image"
                         /\ log[j].image_id = log[i].image_id
                         /\ \A m \in (j + 1)..(i - 1) : log[m].op = "redeploy_service"

\* A completed deploy of a release whose images were inserted as b, a, with
\* redeploys on behalf of both image ids.
C18_Witness ==
    /\ Completed
    /\ calls.order = <<"b", "a">>
    /\ RedeploysFor(calls.log, "a") # {}
    /\ RedeploysFor(calls.log, "b") # {}
    /\ calls.log[1].image_id = "a"

\* C19: a deploy() that completes returns a Deployment whose environment is
\* the requested one and whose details hold exactly one entry per image id of
\* the release, with that image id's tag_result and ecs_deployments; the call
\* appends exactly one deployment to the release, the returned one, and
\* touches no other release.
C19_DeploymentRecorded ==
    [][(calls' # calls /\ calls'.res = "ok")
       => LET d == calls'.returned
              rid == calls'.release_id
              matched == get_ecs_services(aws.fleet, Repos, calls'.environment).matched_services
          IN /\ rid \in DOMAIN table
             /\ d.environment = calls'.environment
             /\ DOMAIN d.details = DOMAIN table[rid].images
             /\ \A k \in DOMAIN d.details :
                    /\ d.details[k].tag_result =
                           tag_image(aws.tags, k, table[rid].images[k],
                                     calls'.environment).tag_operation
                    /\ d.details[k].ecs_deployments =
                           IF d.details[k].tag_result.status = "noop" THEN <<>>
                           ELSE matched[k]
             /\ DOMAIN table' = DOMAIN table
             /\ table'[rid].deployments = Append(table[rid].deployments, d)
             /\ \A other \in DOMAIN table \ {rid} : table'[other] = table[other]]_vars

\* A completed deploy of a release that had been deployed before: the
\* returned deployment is the second and last of the release.
C19_Witness ==
    /\ Completed
    /\ calls.release_id \in DOMAIN table
    /\ Len(table[calls.release_id].deployments) = 2
    /\ table[calls.release_id].deployments[2] = calls.returned
    /\ DOMAIN calls.returned.details = Repos

\* The service was redeployed by the deploy with this log.
Redeployed(log, arn) == \E i \in Redeploys(log, arn) : log[i].status = "ok"

\* C20: re-running deploy is a safe retry.  When a deploy of release R to
\* environment E failed after the retag of an image id K had succeeded and
\* before every service matched under K was redeployed, the next deploy of R
\* to E, if it completes, redeploys each of those services that was not
\* redeployed yet.
C20_RetryCompletesRollout ==
    [][(/\ calls.res = "ClientError"
        /\ calls'.res = "ok"
        /\ calls'.release_id = calls.release_id
        /\ calls'.environment = calls.environment)
       => \A K \in Repos :
              Changed(K) =>
                  \A arn \in Matched(K) :
                      ~Redeployed(calls.log, arn) => Redeployed(calls'.log, arn)]_vars

\* ------------------------------------------------------------------ claims on matching
\* The resources of the fleet that carry every expected pair among their tags.
Carrying(expected_tags) ==
    {r \in aws.fleet :
        /\ "tags" \in DOMAIN r
        /\ \A k \in DOMAIN expected_tags :
               \E i \in 1..Len(r.tags) : r.tags[i] = Tag(k, expected_tags[k])}

\* C27: for a non-empty expected_tags, find_unique_resource_matching_tags
\* returns the resource when exactly one resource carries every expected pair
\* (further tags allowed, no tags field never matches), raises
\* NoMatchingResourceError when none does and MultipleMatchingResourcesError
\* when two or more do; it never returns a resource lacking an expected pair.
C27_UniqueMatch ==
    (lastOp.op = "find_unique_resource_matching_tags" /\ DOMAIN calls.args # {})
        => LET n == Cardinality(Carrying(calls.args))
           IN /\ n = 1 => (calls.err = "none" /\ Carrying(calls.args) = {calls.val})
              /\ n = 0 => calls.err = "NoMatchingResourceError"
              /\ n >= 2 => calls.err = "MultipleMatchingResourcesError"
              /\ calls.err = "none" => calls.val \in Carrying(calls.args)

\* The one resource with both pairs, and a further tag, was found in a fleet
\* that also holds a resource with one of the pairs and one without tags.
C27_Witness ==
    /\ lastOp.op = "find_unique_resource_matching_tags"
    /\ calls.args = deployment_tags("s1", "prod")
    /\ calls.err = "none"
    /\ calls.val.serviceArn = "s1-prod-x"
    /\ {"s1-any", "untagged"} \subseteq {r.serviceArn : r \in aws.fleet}

\* C28: with an empty expected_tags find_unique_resource_matching_tags raises
\* ValueError for every list of resources, the empty one and a list of one
\* resource included, and returns no resource.
C28_EmptyTagsRejected ==
    (lastOp.op = "find_unique_resource_matching_tags" /\ DOMAIN calls.args = {})
        => (calls.err = "ValueError" /\ calls.val = NoService)

\* The empty predicate was rejected on a fleet of exactly one resource.
C28_Witness ==
    /\ lastOp.op = "find_unique_resource_matching_tags"
    /\ DOMAIN calls.args = {}
    /\ Cardinality(aws.fleet) = 1
    /\ calls.err = "ValueError"

\* Whether some configured service of an image id of the release has two or
\* more services of the fleet with its two tags in the environment.
Ambiguous(image_ids, environment_id) ==
    \E k \in image_ids \cap Repos : \E i \in 1..Len(Services[k]) :
        Cardinality(Carrying(deployment_tags(Services[k][i], environment_id))) >= 2

\* C29: matching a release never settles an ambiguity silently.  When some
\* configured service of some image of the release has more than one fleet
\* service with both tags, matching the release raises
\* MultipleMatchingServicesError and returns no partial mapping; otherwise it
\* raises nothing, and a service without a match is skipped.
C29_AmbiguityRaises ==
    lastOp.op \in {"find_service_arns_for_release", "find_ecs_services_for_release"}
        => IF Ambiguous(calls.args, calls.environment)
           THEN calls.err = "MultipleMatchingServicesError" /\ DOMAIN calls.val = {}
           ELSE /\ calls.err = "none"
                /\ lastOp.op = "find_service_arns_for_release"
                       => \A k \in calls.args \cap Repos :
                              Range(calls.val[k]) =
                                  {r.serviceArn : r \in UNION {
                                      Carrying(deployment_tags(Services[k][i], calls.environment)) :
                                          i \in 1..Len(Services[k])}}

\* Matching a release failed on the two services tagged s2/prod although s1
\* has exactly one match.
C29_Witness ==
    /\ lastOp.op = "find_service_arns_for_release"
    /\ calls.err = "MultipleMatchingServicesError"
    /\ calls.environment = "prod"
    /\ Cardinality(Carrying(deployment_tags("s2", "prod"))) = 2
    /\ Cardinality(Carrying(deployment_tags("s1", "prod"))) = 1

\* C30: find_ecs_services_for_release returns, for every image id of the
\* release that is an image repository, every configured service id with a
\* match in the environment, mapped to its service description, also when
\* the repository has two or more matched services; image ids that are not
\* configured or have no matched service are omitted.
C30_AllMatchedServices ==
    (lastOp.op = "find_ecs_services_for_release" /\ calls.err = "none")
        => /\ DOMAIN calls.val \subseteq calls.args \cap Repos
           /\ \A k \in calls.args \cap Repos :
                  LET matched == {i \in 1..Len(Services[k]) :
                                     Carrying(deployment_tags(Services[k][i], calls.environment)) # {}}
                  IN IF matched = {} THEN k \notin DOMAIN calls.val
                     ELSE /\ k \in DOMAIN calls.val
                          /\ DOMAIN calls.val[k] = {Services[k][i] : i \in matched}
                          /\ \A i \in matched :
                                 calls.val[k][Services[k][i]] \in
                                     Carrying(deployment_tags(Services[k][i], calls.environment))

\* ------------------------------------------------------------------ claims on the registry
\* C25: retagging is idempotent.  A tag_image(tag, new_tag) that returns
\* reports 'success' when it made new_tag point at the image of tag and
\* 'noop', with nothing written, when new_tag pointed at that image already;
\* the same call made again right after it returns 'noop' and leaves the
\* registry as it is.
C25_RetagIdempotent ==
    (lastOp.op = "tag_image" /\ calls.err = "none")
        => LET tag == calls.args[2]
               new_tag == calls.args[3]
               after == aws.registry[calls.args[1]]
           IN /\ calls.val \in {"success", "noop"}
              /\ calls.val = "noop" <=> calls.before[new_tag] = calls.before[tag]
              /\ after = [calls.before EXCEPT ![new_tag] = calls.before[tag]]
              /\ calls.val = "noop" => after = calls.before
              /\ calls.again => calls.val = "noop"

\* The same retag was made twice in a row; the first moved the tag.
C25_Witness ==
    /\ lastOp.op = "tag_image"
    /\ calls.again
    /\ calls.val = "noop"
    /\ calls.args = <<"a", "ref.2", "latest">>
    /\ aws.registry["a"]["latest"] = "i2"

\* C26: get_ref_tags_for_image raises NoSuchImageError when no image of the
\* repository carries the label, NoRefTagError when the image has no tag
\* starting with 'ref.', and otherwise returns a non-empty set holding only
\* tags of that image that start with 'ref.'; another error of the registry
\* propagates.
C26_RefTagsOfImage ==
    lastOp.op = "get_ref_tags_for_image"
        => LET repository == calls.before
               tag == calls.args[2]
               ofImage == {t \in ImageTags : repository[t] # "none" /\ repository[t] = repository[tag]}
           IN IF calls.args[3] # "none" THEN calls.err = "ClientError"
              ELSE IF repository[tag] = "none" THEN calls.err = "NoSuchImageError"
              ELSE IF \A t \in ofImage : ~startswith_ref(t) THEN calls.err = "NoRefTagError"
              ELSE /\ calls.err = "none"
                   /\ calls.val # {}
                   /\ \A t \in calls.val : t \in ofImage /\ startswith_ref(t)

\* The label resolved to the two ref tags of an image that also carries
\* tags that are not ref tags.
C26_Witness ==
    /\ lastOp.op = "get_ref_tags_for_image"
    /\ calls.args[2] = "latest"
    /\ calls.err = "none"
    /\ calls.val = {"ref.1", "ref.2"}
    /\ calls.before["env.prod"] = calls.before["latest"]

\* ------------------------------------------------------------------ claims on prepare and update
\* The configured repositories without an image tagged from_label.
Unresolved(from_label) == {r \in Repos : aws.registry[r][from_label] = "none"}

\* C21: prepare(from_label, description) is all-or-nothing: when some
\* configured repository has no image carrying from_label, prepare fails and
\* stores no release, and a release it stores has an image for every
\* configured repository.
C21_PrepareAllOrNothing ==
    lastOp.op = "prepare"
        => /\ Unresolved(calls.args[1]) # {} => (calls.err # "none" /\ calls.val.new = NoRelease)
           /\ calls.err = "none" => \A r \in Repos : calls.val.new.images[r] # NoImage

\* C22: a successful prepare() stores exactly one new release, under a fresh
\* release_id, with no deployments and with the resolved images, and returns
\* it with the release that was the most recent before the call, or None
\* when the store held none.
C22_PrepareStoresOne ==
    [][(lastOp'.op = "prepare" /\ table' # table)
       => LET new == calls'.val.new
              newest == CHOOSE x \in DOMAIN table :
                            \A y \in DOMAIN table : table[y].date_created <= table[x].date_created
          IN /\ calls'.err = "none"
             /\ new.release_id \notin DOMAIN table
             /\ DOMAIN table' = DOMAIN table \cup {new.release_id}
             /\ table'[new.release_id] = new
             /\ \A x \in DOMAIN table : table'[x] = table[x]
             /\ new.deployments = <<>>
             /\ new.images = calls'.images
             /\ new.images \in get_images(aws.registry, calls'.args[1]).results
             /\ calls'.val.previous = IF DOMAIN table = {} THEN NoRelease ELSE table[newest]]_vars

\* A prepare stored a second release and returned the earlier one with it.
C22_Witness ==
    /\ lastOp.op = "prepare"
    /\ calls.err = "none"
    /\ calls.val.previous = EarlierRelease
    /\ calls.val.new.release_id \in DOMAIN table
    /\ Cardinality(DOMAIN table) = 2

\* C23: a successful update(release_id, service_ids, from_label) stores a new
\* release whose images are those of the base release with exactly the keys
\* in service_ids replaced by the images resolved at from_label; the other
\* keys keep the base image, and the new release_id differs from the base's.
C23_UpdateMerges ==
    (lastOp.op = "update" /\ calls.err = "none")
        => LET new == calls.val.new
               base == calls.base
               service_ids == calls.args[2]
           IN /\ DOMAIN new.images = DOMAIN base.images \cup service_ids
              /\ \A k \in DOMAIN new.images :
                     new.images[k] = IF k \in service_ids THEN calls.images[k]
                                     ELSE base.images[k]
              /\ new.release_id # base.release_id
              /\ table[new.release_id] = new
              /\ table[base.release_id].images = base.images

\* An update of image a only, while the registry resolves other images than
\* the base release's for both a and b.
C23_Witness ==
    /\ lastOp.op = "update"
    /\ calls.err = "none"
    /\ calls.args[2] = {"a"}
    /\ \A r \in Repos : calls.images[r] # calls.base.images[r]
    /\ calls.val.new.images["a"] = calls.images["a"]
    /\ calls.val.new.images["b"] = calls.base.images["b"]

\* C24: update(release_id, service_ids, from_label) of a stored release
\* fails and stores no release when some requested service_id has no
\* resolvable image at from_label, a configured repository without an image
\* carrying from_label included.
C24_UpdateNeedsImages ==
    (/\ lastOp.op = "update"
     /\ calls.base # NoRelease
     /\ \E service_id \in calls.args[2] :
            service_id \notin Repos \/ service_id \in Unresolved(calls.args[3]))
        => (calls.err # "none" /\ calls.val.new = NoRelease)

\* ------------------------------------------------------------------ claims on the two writes of add_deployment
\* C36: DynamoReleaseStore.add_deployment appends to the list before it sets
\* last_date_deployed, so in every state, between the two writes and after a
\* crash between them included, the last_date_deployed of a release is the
\* date_created of a deployment in its list, or is absent.
C36_DateRefersToStoredDeployment ==
    \A x \in DOMAIN table :
        \/ table[x].last_date_deployed = NoDate
        \/ \E i \in 1..Len(table[x].deployments) :
               table[x].deployments[i].date_created = table[x].last_date_deployed

\* A process died after its append: its deployment is stored after an
\* earlier one, and last_date_deployed is still that of the earlier one.
C36_Witness ==
    /\ lastOp.op = "crash"
    /\ LET ds == table[lastOp.rid].deployments
       IN /\ Len(ds) >= 2
          /\ ds[Len(ds)] = lastOp.d
          /\ table[lastOp.rid].last_date_deployed = ds[1].date_created
          /\ table[lastOp.rid].last_date_deployed < lastOp.d.date_created

\* C37: when two processes have deployed the same release concurrently and
\* both add_deployment calls have completed, the release's last_date_deployed
\* is the date_created of the newest deployment in its list.
C37_ConcurrentDeploysAgree ==
    (/\ \A p \in Procs : pc[p].st = "idle"
     /\ lastOp.op = "add_deployment")
        => \A x \in DOMAIN table :
               (\A p \in Procs : \E i \in 1..Len(table[x].deployments) :
                                     table[x].deployments[i].requested_by = p)
                   => table[x].last_date_deployed = MaxDateCreated(table[x].deployments)

\* ------------------------------------------------------------------ claims on the configuration
\* C34: when prepare_config returns and an override account_id was given,
\* for a config without account_id or with a different one, the config's
\* account_id after the call is the override, whatever account the role ARN
\* names.
C34_OverrideAccountId ==
    (/\ lastOp.op = "prepare_config"
     /\ calls.err = "none"
     /\ truthy(calls.args.account_id)
     /\ calls.config.account_id # calls.args.account_id)
        => calls.val.account_id = calls.args.account_id

\* ------------------------------------------------------------------ claims on a deploy that raises
\* C35: when a retag or a redeploy raises during deploy(), no deployment is
\* appended to any release and nothing is returned, while the calls made
\* before the one that raised stay applied: every retag the call made still
\* points env.<environment_id> at the release's image, and the call that
\* raised is the last one made.  A deploy() changes the store only when it
\* has retagged every image key of the release.
C35_NoRollbackNoRecord ==
    [][/\ (lastOp'.op = "deploy" /\ calls'.res = "ClientError")
           => LET log == calls'.log
                  rid == calls'.release_id
              IN /\ table' = table
                 /\ calls'.returned = NoDeployment
                 /\ Len(log) >= 1
                 /\ log[Len(log)].status = "raised"
                 /\ \A i \in 1..(Len(log) - 1) :
                        /\ log[i].status # "raised"
                        /\ log[i].op = "tag_image" =>
                               aws'.tags[log[i].image_id][calls'.environment] =
                                   table[rid].images[log[i].image_id]
       /\ (lastOp'.op = "deploy" /\ table' # table)
           => /\ calls'.res = "ok"
              /\ \A k \in DOMAIN table[calls'.release_id].images :
                     \E i \in 1..Len(calls'.log) :
                         /\ calls'.log[i].op = "tag_image"
                         /\ calls'.log[i].image_id = k
                         /\ calls'.log[i].status # "raised"]_vars

\* The retag of image b raised after image a was retagged and a service of a
\* was redeployed: a's tag has moved, and the release has no deployment.
C35_Witness ==
    /\ lastOp.op = "deploy"
    /\ calls.res = "ClientError"
    /\ Len(calls.log) >= 3
    /\ calls.log[1] = Call("tag_image", "a", "none", "success")
    /\ calls.log[2].op = "redeploy_service" /\ calls.log[2].status = "ok"
    /\ calls.log[Len(calls.log)] = Call("tag_image", "b", "none", "raised")
    /\ aws.tags["a"][calls.environment] = table[calls.release_id].images["a"]
    /\ aws.tags["b"][calls.environment] # table[calls.release_id].images["b"]
    /\ table[calls.release_id].deployments = <<>>

\* ------------------------------------------------------------------ claims on convergence
\* The last step was a turn of the wait loop that polled: its poll is the
\* last one recorded, taken of the services as they are now.
JustPolled ==
    /\ lastOp.op = "wait_for_deployment"
    /\ lastOp.res \in {"done", "sleeping"}
    /\ Len(pc["p1"].polls) > 0
    /\ pc["p1"].polls[Len(pc["p1"].polls)].at = now - pc["p1"].started

\* The services matched for the release in the environment.
MatchedArns(environment_id) ==
    UNION {Range(get_ecs_services(aws.fleet, Repos, environment_id).matched_services[k]) :
               k \in Repos}

\* The three checks on one service.
Converged(service) ==
    /\ \A i \in 1..Len(service.tasks) :
           /\ service.tasks[i].label = service.label
           /\ service.tasks[i].lastStatus = "RUNNING"
    /\ Len(service.tasks) >= service.desiredCount

\* C31: is_release_deployed(release, environment_id) returns, and returns
\* true exactly when every service matched for the release in the
\* environment has all its tasks carrying the service's deployment:label and
\* RUNNING, and at least desiredCount tasks; true when no service is matched.
C31_DeployedIffConverged ==
    JustPolled
        => /\ calls.err = "none"
           /\ calls.val = \A arn \in MatchedArns(calls.environment) :
                              Converged(aws.running[arn])

\* C39: is_release_deployed does not raise because of the state of a task:
\* when every matched service carries a deployment:label and some task has
\* the label of its service but a lastStatus other than RUNNING, the call
\* returns false.
C39_NotRunningIsFalse ==
    (/\ JustPolled
     /\ \A arn \in MatchedArns(calls.environment) : aws.running[arn].label # Absent
     /\ \E arn \in MatchedArns(calls.environment) :
            \E i \in 1..Len(aws.running[arn].tasks) :
                /\ aws.running[arn].tasks[i].label = aws.running[arn].label
                /\ aws.running[arn].tasks[i].lastStatus # "RUNNING")
        => (calls.err = "none" /\ calls.val = FALSE)

\* What holds of a wait at every moment: no poll is made once the elapsed
\* time exceeds timeout_seconds, two polls are poll_interval_seconds apart,
\* every poll but the last failed, the wait ends at the poll that passes with
\* true, and it ends with false only once the elapsed time exceeds
\* timeout_seconds.
WaitInv ==
    LET w == pc["p1"]
        n == Len(w.polls)
    IN /\ \A i \in 1..n : w.polls[i].at <= w.timeout_seconds
       /\ \A i \in 1..(n - 1) :
              /\ w.polls[i + 1].at - w.polls[i].at = w.poll_interval_seconds
              /\ w.polls[i].err = "none"
              /\ ~w.polls[i].val
       /\ (n > 0 /\ w.polls[n].err = "none" /\ w.polls[n].val)
              <=> (w.st = "done" /\ w.err = "none" /\ w.val)
       /\ (w.st = "done" /\ w.err = "none" /\ ~w.val)
              => now - w.started > w.timeout_seconds
       /\ w.st = "sleeping" => (n > 0 /\ w.polls[n].at = now - w.started)

\* C32: wait_for_deployment(release, environment_id, timeout_seconds,
\* poll_interval_seconds) always terminates; it returns true at the first
\* poll at which every matched service passes, it returns false once the
\* elapsed time exceeds timeout_seconds without a further poll, and it waits
\* poll_interval_seconds between two polls.
C32_WaitTerminates ==
    /\ [](pc["p1"].st \in {"polling", "sleeping", "done"} => WaitInv)
    /\ (pc["p1"].st = "polling") ~> (pc["p1"].st = "done")

\* A wait that returned true at its second poll or later: the services
\* converged while it slept.
C32_Witness ==
    /\ pc["p1"].st = "done"
    /\ pc["p1"].err = "none"
    /\ pc["p1"].val
    /\ Len(pc["p1"].polls) >= 2
    /\ pc["p1"].polls[1].val = FALSE

\* ------------------------------------------------------------------ claims on show-deployments
\* C33: Project.get_deployments(release_id=R, limit, environment_id) returns
\* the deployments of R, newest first and cut to limit, for every stored
\* release R, those whose deployments add_deployment recorded included; with
\* release_id None it returns the store's recent deployments for the
\* environment, newest first and cut to limit.
C33_GetDeployments ==
    /\ \A R \in DOMAIN table, k \in Limits :
           LET out == Project_get_deployments(kind, table, R, k, NoEnv, 1)
           IN /\ out.err = "none"
              /\ NewestFirst(EnvAndDates(out.val),
                             {EnvAndDate(d) : d \in Range(table[R].deployments)}, k)
    /\ \A e \in Envs, k \in Limits, pageSize \in PageSizes :
           LET out == Project_get_deployments(kind, table, NoReleaseId, k, e, pageSize)
               recent == get_recent_deployments(kind, table, e, k, pageSize)
           IN /\ out.err = "none"
              /\ NewestFirst(EnvAndDates(out.val), Range(EnvAndDates(recent)), k)

\* ------------------------------------------------------------------ claims on the repository of an image
\* C38: for every image id, the repository in which get_images resolves the
\* label is the repository in which deploy retags env.<environment_id>,
\* also for a repository with a namespace of its own.
C38_SameRepository ==
    \A resolved \in aws.received : \A retagged \in aws.received :
        (/\ resolved.op = "describe_images"
         /\ retagged.op = "put_image"
         /\ resolved.image_id = retagged.image_id)
        => resolved.repositoryName = retagged.repositoryName

====
